---- MODULE Spec2Model ----
(***************************************************************************)
(* The identity and session security engine of pnit: rate limiting,        *)
(* account lockout, the security audit log and the session lifecycle       *)
(* (backend/utils/security.js, here src/unnamed/part_008) and the auth     *)
(* handlers that use them (src/backend/functions/deleteHistory/handler.js, *)
(* lines 56-849).                                                          *)
(*                                                                         *)
(* Every request is a process p: it walks the statements of its handler,   *)
(* one db.query per step, so that requests interleave between statements.  *)
(* Each db.query may fail; the step then takes the code's catch branch.    *)
(* Time is counted in ticks of 5 minutes: 15 min = 3, 30 min = 6,          *)
(* 1 h = 12, 24 h = 288, 7 d = 2016.                                       *)
(***************************************************************************)
EXTENDS Integers, Sequences, FiniteSets, Bags, TLC

\* ------------------------------------------------------------------ bounds
NumProcs == 2
MaxTicks == 2
MaxFaults == 1
MaxSessions == 2
MaxTokens == 6
MaxAudit == 7
MaxLogins == 1
MaxPwAudit == 2
MaxResets == 1
MaxRegAudit == 1
MaxKeys == 2
MaxLogouts == 1

\* --------------------------------------------------------------- constants
NULL == -1

Ticks(minutes) == minutes \div 5

RATE_LIMITS ==
  [ login          |-> [requests |-> 5,   window |-> Ticks(15)],
    register       |-> [requests |-> 3,   window |-> Ticks(60)],
    api            |-> [requests |-> 100, window |-> Ticks(60)],
    password_reset |-> [requests |-> 3,   window |-> Ticks(60)] ]

ACCOUNT_LOCKOUT == [threshold |-> 5, duration |-> Ticks(30)]

\* handleForgotPassword: resetExpires = Date.now() + 1 h
RESET_TTL == Ticks(60)

\* createSession / refreshSession: Date.now() + 24 h, Date.now() + 7 d
ACCESS_TTL == Ticks(24 * 60)
REFRESH_TTL_OneDay == Ticks(24 * 60)
REFRESH_TTL == Ticks(7 * 24 * 60)

Procs == 1 .. NumProcs
Idents == {"ip1"}
Users == {"u1", "u2"}
Passwords == {"pw0", "pw1"}
LoginUsers == {"u1"}

VARIABLES
  now,          \* the clock, in ticks
  ticks,        \* how often the clock has advanced
  rate_limits,  \* table rate_limits: a sequence of rows, in insertion order
  audit,        \* table security_audit_log: the bag of its rows
  proc,         \* per request: its position and its local variables
  faults,       \* how many db.query calls have failed so far
  rlobs,        \* observer: where the calls on the rate-limited pair stand
  user_sessions,\* table user_sessions: a sequence of rows, the index is the id
  issued,       \* history: issued[t] tells for which row token t was generated
  bulk,         \* observer: the rows a completed revokeAllUserSessions covered
  users,        \* table users: the row of each registered account
  minted,       \* how many password reset tokens have been generated
  streak,       \* observer: each account's run of wrong-password logins
  masterKey,    \* the EncryptionManager's master key (ENCRYPTION_MASTER_KEY)
  encrypted_data,\* table encrypted_data: a sequence of rows, the index is the id
  api_keys,     \* table api_keys: a sequence of rows, the index is the id
  shown         \* observer: per generated API key, the responses that carried it

rateVars == <<rate_limits, rlobs>>
sessVars == <<user_sessions, issued, bulk>>
userVars == <<users, minted, streak>>
vaultVars == <<masterKey, encrypted_data, api_keys, shown>>
vars == <<now, ticks, rate_limits, audit, proc, faults, rlobs, user_sessions, issued, bulk,
          users, minted, streak, masterKey, encrypted_data, api_keys, shown>>

\* ------------------------------------------------------------ request state
NoRow == [requests_count |-> 0, window_start |-> NULL, blocked_until |-> NULL]

\* The body of a response, as far as it is modelled: the error text, the
\* attemptsRemaining field (NULL: absent) and the details field ("none": absent).
NoReply == [error |-> "none", attemptsRemaining |-> NULL, details |-> "none"]

\* No encrypted record.
NoBox == [encrypted |-> <<>>, salt |-> "none", iv |-> "none", authTag |-> <<>>,
          keyId |-> <<>>]

Idle ==
  [ pc |-> "idle", op |-> "none", ip |-> "none", ep |-> "none", t0 |-> 0,
    rl |-> NoRow, found |-> FALSE,
    tok |-> 0, uid |-> "none", sid |-> 0,
    body |-> "none", email |-> "none", pw |-> "none", npw |-> "none", hash |-> "none",
    res |-> "none", err |-> FALSE, logged |-> 0,
    thrown |-> "none", attempts |-> 0, reply |-> NoReply,
    val |-> "none", box |-> NoBox,
    name |-> "none", confirmation |-> "none", key |-> 0, target |-> 0,
    bearer |-> "none" ]

InFlight(p) == proc[p].pc \notin {"idle", "done"}

\* A request may start: its slot is free; in a sequential run (seq) there is one
\* slot only, so that no two requests overlap.
CanStart(p, seq) ==
  /\ proc[p].pc \in {"idle", "done"}
  /\ seq => p = 1

Max(a, b) == IF a >= b THEN a ELSE b

\* The operations of the settings handler that are modelled.
SettingsOps == {"apiKeyCreate", "apiKeyList", "apiKeyRevoke", "deleteAccount"}

\* The body that goes with status v: the catch of exports.main puts the
\* message of the error it caught into details; handleLogin answers an unknown
\* email (no user row: uid is "none") and a wrong password with the same text,
\* and adds attemptsRemaining for the wrong password.
Body(r, v) ==
  CASE v = "500" /\ r.op \in SettingsOps ->
         [NoReply EXCEPT !.error = "Internal server error", !.details = r.thrown]
    [] v = "401" /\ r.op \in SettingsOps ->
         [NoReply EXCEPT !.error = "Authentication required"]
    [] v = "500" ->
         [NoReply EXCEPT !.error = "Authentication failed", !.details = r.thrown]
    [] r.op = "login" /\ v = "401" ->
         [NoReply EXCEPT !.error = "Invalid email or password",
                         !.attemptsRemaining =
                            IF r.uid = "none" THEN NULL ELSE Max(0, 5 - r.attempts)]
    [] r.op = "login" /\ v = "423" ->
         [NoReply EXCEPT !.error = "Account temporarily locked"]
    [] r.op = "login" /\ v = "429" ->
         [NoReply EXCEPT !.error = "Too many login attempts"]
    [] r.op = "login" /\ v = "400" ->
         [NoReply EXCEPT !.error = "Email and password are required"]
    [] OTHER -> NoReply

\* What is kept of a request once it has returned v.
Finish(r, v) ==
  [Idle EXCEPT !.pc = "done", !.op = r.op, !.ep = r.ep,
               !.res = v, !.err = r.err, !.logged = r.logged, !.reply = Body(r, v)]

Set(p, r) == proc' = [proc EXCEPT ![p] = r]

\* A db.query succeeds (ok) or throws; at most MaxFaults throw in one run.
Outcomes == IF faults < MaxFaults THEN BOOLEAN ELSE {TRUE}

Query(ok) == faults' = faults + (IF ok THEN 0 ELSE 1)

\* --------------------------------------------------------------- the clock
Tick(jumps) ==
  /\ ticks < MaxTicks
  /\ \E d \in jumps : now' = now + d
  /\ ticks' = ticks + 1
  /\ UNCHANGED <<rate_limits, audit, proc, faults, rlobs, sessVars, userVars, vaultVars>>

\* --------------------------------------------------------------- audit log
\* logSecurityEvent: one INSERT; a failure is caught and swallowed.
AuditAppend(ok, uid, type, success) ==
  IF ok THEN audit (+) SetToBag({[user_id |-> uid, event_type |-> type, success |-> success]})
        ELSE audit

\* ------------------------------------------------------- password utilities
\* hashPassword / verifyPassword: bcrypt.hash, bcrypt.compare.
Hash(pw) == <<"bcrypt", pw>>

VerifyPassword(pw, h) == h = Hash(pw)

\* validatePassword: the strength pattern; "weak" stands for what fails it.
ValidatePassword(pw) == pw \in Passwords

\* ------------------------------------------------- handlers: after a callee
\* handleLogin after the rate limit: JSON.parse, then the presence check.
LoginBody(r) ==
  IF r.body = "garbage" THEN [r EXCEPT !.pc = "main_catch", !.thrown = "SyntaxError"]
  ELSE IF r.email = "none" \/ r.pw = "none" THEN Finish(r, "400")
  ELSE [r EXCEPT !.pc = "login_select"]

\* handleRegister after the rate limit: JSON.parse, the presence check,
\* validateEmail ("bad" stands for what fails it) and validatePassword.
RegisterBody(r) ==
  IF r.body = "garbage" THEN [r EXCEPT !.pc = "main_catch", !.thrown = "SyntaxError"]
  ELSE IF r.email = "none" \/ r.pw = "none" THEN Finish(r, "400")
  ELSE IF r.email = "bad" THEN Finish(r, "400")
  ELSE IF ~ValidatePassword(r.pw) THEN Finish(r, "400")
  ELSE [r EXCEPT !.pc = "reg_select"]

\* handleForgotPassword after the rate limit.
ForgotBody(r) ==
  IF r.body = "garbage" THEN [r EXCEPT !.pc = "main_catch", !.thrown = "SyntaxError"]
  ELSE IF r.email = "none" THEN Finish(r, "400")
  ELSE [r EXCEPT !.pc = "fgt_select"]

\* handleChangePassword once validateSession has returned a session.
ChangeBody(r) ==
  IF r.body = "garbage" THEN [r EXCEPT !.pc = "main_catch", !.thrown = "SyntaxError"]
  ELSE IF r.pw = "none" \/ r.npw = "none" THEN Finish(r, "400")
  ELSE IF ~ValidatePassword(r.npw) THEN Finish(r, "400")
  ELSE [r EXCEPT !.pc = "chg_select"]

\* handleResetPassword from its first statement to the lookup.
ResetBody(r) ==
  IF r.body = "garbage" THEN [r EXCEPT !.pc = "main_catch", !.thrown = "SyntaxError"]
  ELSE IF r.tok = 0 \/ r.npw = "none" THEN Finish(r, "400")
  ELSE IF ~ValidatePassword(r.npw) THEN Finish(r, "400")
  ELSE [r EXCEPT !.pc = "rst_select"]

\* Function fn, called by request r, returns v: a standalone call ends with v,
\* a handler goes on where it called fn.
After(r, fn, v) ==
  CASE r.op = "login" /\ fn = "checkRateLimit" ->
         IF v = "false" THEN Finish(r, "429") ELSE LoginBody(r)
    [] r.op = "login" /\ fn = "createSession" ->
         IF v = "throw"
           THEN [r EXCEPT !.pc = "handler_catch", !.thrown = "Failed to create session"]
           ELSE Finish(r, "200")
    [] r.op = "register" /\ fn = "checkRateLimit" ->
         IF v = "false" THEN Finish(r, "429") ELSE RegisterBody(r)
    [] r.op = "register" /\ fn = "createSession" ->
         IF v = "throw"
           THEN [r EXCEPT !.pc = "handler_catch", !.thrown = "Failed to create session"]
           ELSE [r EXCEPT !.pc = "reg_log"]
    [] r.op = "forgotPassword" /\ fn = "checkRateLimit" ->
         IF v = "false" THEN Finish(r, "429") ELSE ForgotBody(r)
    [] r.op = "changePassword" /\ fn = "validateSession" ->
         IF v = "null" THEN Finish(r, "401") ELSE ChangeBody(r)
    [] r.op = "changePassword" /\ fn = "revokeAllUserSessions" ->
         [r EXCEPT !.pc = "chg_log_ok"]
    [] r.op = "resetPassword" /\ fn = "revokeAllUserSessions" ->
         [r EXCEPT !.pc = "rst_log_ok"]
    [] r.op = "logout" /\ fn = "validateSession" ->
         [r EXCEPT !.pc = "rev_update"]
    [] r.op = "logout" /\ fn = "revokeSession" ->
         IF r.sid # 0 THEN [r EXCEPT !.pc = "logout_log"] ELSE Finish(r, "200")
    [] OTHER -> Finish(r, v)

\* ------------------------------------------------------------ rate limiting
RowsOf(id, ep) ==
  {i \in 1 .. Len(rate_limits) :
     rate_limits[i].identifier = id /\ rate_limits[i].endpoint = ep}

\* SELECT ... ORDER BY created_at DESC LIMIT 1: a row of the pair, none newer.
Latest(id, ep) ==
  {i \in RowsOf(id, ep) :
     \A j \in RowsOf(id, ep) : rate_limits[j].created_at <= rate_limits[i].created_at}

\* UPDATE rate_limits SET blocked_until = $1 WHERE identifier = $2 AND endpoint = $3
BlockRows(id, ep, until) ==
  [i \in 1 .. Len(rate_limits) |->
     IF i \in RowsOf(id, ep) THEN [rate_limits[i] EXCEPT !.blocked_until = until]
                             ELSE rate_limits[i]]

\* UPDATE rate_limits SET requests_count = requests_count + 1 WHERE ...
IncrementRows(id, ep) ==
  [i \in 1 .. Len(rate_limits) |->
     IF i \in RowsOf(id, ep) THEN [rate_limits[i] EXCEPT !.requests_count = @ + 1]
                             ELSE rate_limits[i]]

\* UPDATE rate_limits SET requests_count = 1, window_start = NOW(), blocked_until = NULL
ResetRows(id, ep) ==
  [i \in 1 .. Len(rate_limits) |->
     IF i \in RowsOf(id, ep)
       THEN [rate_limits[i] EXCEPT !.requests_count = 1, !.window_start = now,
                                   !.blocked_until = NULL]
       ELSE rate_limits[i]]

\* What checkRateLimit returns on a store failure (the catch branch).
RateLimitOnErrorClosed == "false"

RateLimitOnError == "true"

\* if (requests_count >= limit.requests): the window's quota is used up.
OverLimitOffByOne(count, limit) == count > limit.requests

OverLimit(count, limit) == count >= limit.requests

RlReturn(r, v) == After(r, "checkRateLimit", v)

\* ------------------------------------------------- awaiting logSecurityEvent
Logged(r, ok) == [r EXCEPT !.logged = @ + (IF ok THEN 1 ELSE 0)]

\* logSecurityEvent returns to its caller, which goes on as `next`, whether the
\* INSERT went through or threw: the catch only prints the error.
LogReturnRethrowing(ok, next) ==
  IF ok THEN Logged(next, TRUE) ELSE [next EXCEPT !.pc = "main_catch"]

LogReturn(ok, next) == Logged(next, ok)

\* The positions at which a request awaits logSecurityEvent.
LogPcs ==
  { "rl_log", "login_log_invalid", "login_log_locked", "fail_log", "succ_log",
    "chg_log_invalid", "chg_log_ok", "fgt_log", "rst_log_invalid", "rst_log_ok",
    "reg_log_dup", "reg_log", "logout_log",
    "handler_catch", "main_catch" }

\* Where request r stands once the logSecurityEvent it awaits has returned.
AfterLog(r, ok) ==
  LogReturn(ok,
    CASE r.pc = "rl_log"            -> RlReturn(r, "false")
      [] r.pc = "login_log_invalid" -> Finish(r, "401")
      [] r.pc = "login_log_locked"  -> Finish(r, "423")
      [] r.pc = "fail_log"          -> Finish(r, "401")
      [] r.pc = "succ_log"          -> [r EXCEPT !.pc = "cs_insert"]
      [] r.pc = "chg_log_invalid"   -> Finish(r, "401")
      [] r.pc = "chg_log_ok"        -> Finish(r, "200")
      [] r.pc = "fgt_log"           -> Finish(r, "200")
      [] r.pc = "rst_log_invalid"   -> Finish(r, "400")
      [] r.pc = "rst_log_ok"        -> Finish(r, "200")
      [] r.pc = "reg_log_dup"       -> Finish(r, "409")
      [] r.pc = "reg_log"           -> Finish(r, "201")
      [] r.pc = "logout_log"        -> Finish(r, "200")
      [] r.pc = "handler_catch"     -> [r EXCEPT !.pc = "main_catch"]
      [] r.pc = "main_catch"        -> Finish(r, "500"))

\* Observer of the standalone calls on one pair since the table was empty:
\* n calls have returned, the first at time first, each within the first one's
\* window; the call after the limit was denied at time deny; n = limit + 2 once
\* a call has been made after that block elapsed, and Void once a call came
\* after the first window without the limit having been reached.
Void == 0 - 2

RlObserved(p) ==
  /\ proc[p].op = "checkRateLimit"
  /\ proc[p].ep \in DOMAIN RATE_LIMITS
  /\ proc[p].pc # "done"
  /\ proc'[p].pc = "done"

ObserveRl(p) ==
  rlobs' =
    IF ~RlObserved(p) THEN rlobs
    ELSE LET t     == proc[p].t0
             limit == RATE_LIMITS[proc[p].ep]
         IN CASE rlobs.n = 0 -> [n |-> 1, first |-> t, deny |-> NULL]
              [] rlobs.n \in 1 .. limit.requests /\ t - rlobs.first < limit.window ->
                   [rlobs EXCEPT !.n = @ + 1,
                                 !.deny = IF rlobs.n = limit.requests THEN t ELSE NULL]
              [] rlobs.n \in 1 .. limit.requests /\ t - rlobs.first >= limit.window ->
                   [rlobs EXCEPT !.n = Void]
              [] rlobs.n = limit.requests + 1 /\ t >= rlobs.deny + limit.window ->
                   [rlobs EXCEPT !.n = @ + 1]
              [] OTHER -> rlobs

StartCheckRateLimit(p, seq) ==
  /\ CanStart(p, seq)
  /\ \E id \in Idents, ep \in {"login", "other"} :
       Set(p, [Idle EXCEPT !.pc = "rl_enter", !.op = "checkRateLimit",
                           !.ip = id, !.ep = ep])
  /\ UNCHANGED <<userVars, now, ticks, rate_limits, audit, faults, rlobs, sessVars, vaultVars>>

\* const limit = RATE_LIMITS[endpoint]; if (!limit) return true; const now = new Date()
RlEnter(p) ==
  /\ proc[p].pc = "rl_enter"
  /\ IF proc[p].ep \notin DOMAIN RATE_LIMITS
       THEN Set(p, RlReturn(proc[p], "true"))
       ELSE Set(p, [proc[p] EXCEPT !.pc = "rl_select", !.t0 = now])
  /\ UNCHANGED <<userVars, now, ticks, rate_limits, audit, faults, sessVars, vaultVars>>
  /\ ObserveRl(p)

\* if (blocked_until && new Date(blocked_until) > now)
BlockedWithinWindow(row, t) ==
  /\ row.blocked_until # NULL
  /\ row.blocked_until > t
  /\ row.window_start > t - RATE_LIMITS.login.window

CurrentlyBlocked(row, t) == row.blocked_until # NULL /\ row.blocked_until > t

\* The lookup, and the return when the pair is currently blocked.
RlSelect(p) ==
  /\ proc[p].pc = "rl_select"
  /\ \E ok \in Outcomes :
       /\ Query(ok)
       /\ IF ~ok
            THEN Set(p, RlReturn([proc[p] EXCEPT !.err = TRUE], RateLimitOnError))
            ELSE LET r == proc[p] IN
                 IF RowsOf(r.ip, r.ep) = {}
                   THEN Set(p, [r EXCEPT !.pc = "rl_write", !.found = FALSE, !.rl = NoRow])
                   ELSE \E i \in Latest(r.ip, r.ep) :
                          LET row == [requests_count |-> rate_limits[i].requests_count,
                                      window_start   |-> rate_limits[i].window_start,
                                      blocked_until  |-> rate_limits[i].blocked_until]
                          IN IF CurrentlyBlocked(row, r.t0)
                               THEN Set(p, RlReturn(r, "false"))
                               ELSE Set(p, [r EXCEPT !.pc = "rl_write", !.found = TRUE,
                                                     !.rl = row])
  /\ UNCHANGED <<userVars, now, ticks, rate_limits, audit, sessVars, vaultVars>>
  /\ ObserveRl(p)

\* The one write of the call: block, increment, reset or insert.
RlWrite(p) ==
  /\ proc[p].pc = "rl_write"
  /\ LET r     == proc[p]
         limit == RATE_LIMITS[r.ep]
     IN \E ok \in Outcomes :
       /\ Query(ok)
       /\ IF ~ok
            THEN /\ Set(p, RlReturn([r EXCEPT !.err = TRUE], RateLimitOnError))
                 /\ UNCHANGED rate_limits
            ELSE IF ~r.found
              THEN /\ rate_limits' = Append(rate_limits,
                          [identifier |-> r.ip, endpoint |-> r.ep, requests_count |-> 1,
                           window_start |-> now, blocked_until |-> NULL,
                           created_at |-> now])
                   /\ Set(p, RlReturn(r, "true"))
            ELSE IF r.rl.window_start > r.t0 - limit.window
              THEN IF OverLimit(r.rl.requests_count, limit)
                     THEN /\ rate_limits' = BlockRows(r.ip, r.ep, r.t0 + limit.window)
                          /\ Set(p, [r EXCEPT !.pc = "rl_log"])
                     ELSE /\ rate_limits' = IncrementRows(r.ip, r.ep)
                          /\ Set(p, RlReturn(r, "true"))
              ELSE /\ rate_limits' = ResetRows(r.ip, r.ep)
                   /\ Set(p, RlReturn(r, "true"))
  /\ UNCHANGED <<userVars, now, ticks, audit, sessVars, vaultVars>>
  /\ ObserveRl(p)

\* await logSecurityEvent(null, 'rate_limit_exceeded', ...); return false
RlLog(p) ==
  /\ proc[p].pc = "rl_log"
  /\ \E ok \in Outcomes :
       /\ Query(ok)
       /\ audit' = AuditAppend(ok, "null", "rate_limit_exceeded", FALSE)
       /\ Set(p, AfterLog(proc[p], ok))
  /\ UNCHANGED <<userVars, now, ticks, rate_limits, sessVars, vaultVars>>
  /\ ObserveRl(p)

\* ------------------------------------------------- observer: login streaks
\* A login request that names an account and carries a password returns.
LoginObserved(p) ==
  /\ proc[p].op = "login"
  /\ proc[p].body = "json"
  /\ proc[p].email \in Users
  /\ proc[p].pw \in Passwords
  /\ proc[p].pc # "done"
  /\ proc'[p].pc = "done"

\* Per account: n, the wrong-password logins in a row that the rate limiter
\* let through (the count starts again once a lockout has elapsed); at, the
\* time of the one that reached the threshold; phase 1 once a login with the
\* correct password was made during the lockout, phase 2 once, after that, a
\* login with the correct password was made after the lockout.
ObserveLogin(p) ==
  streak' =
    IF ~LoginObserved(p) \/ proc'[p].res = "429" THEN streak
    ELSE LET u      == proc[p].email
             s      == streak[u]
             right  == VerifyPassword(proc[p].pw, users[u].password_hash)
             full   == s.n = ACCOUNT_LOCKOUT.threshold
             locked == full /\ now < s.at + ACCOUNT_LOCKOUT.duration
         IN [streak EXCEPT ![u] =
              IF locked THEN [s EXCEPT !.phase = IF right /\ @ = 0 THEN 1 ELSE @]
              ELSE IF right
                THEN [n |-> 0, at |-> NULL,
                      phase |-> IF full /\ s.phase = 1 THEN 2 ELSE s.phase]
                ELSE LET m == IF full THEN 1 ELSE s.n + 1
                     IN [n |-> m,
                         at |-> IF m = ACCOUNT_LOCKOUT.threshold THEN now ELSE NULL,
                         phase |-> s.phase]]

\* -------------------------------------------------------- session management
SessionIds == 1 .. Len(user_sessions)

\* The tokens generated for row sid so far (generateSecureToken never repeats).
TokensOf(sid) == {t \in 1 .. Len(issued) : issued[t].sid = sid}

\* validateSession's lookup:
\* WHERE s.session_token = $1 AND s.is_active = true AND s.expires_at > NOW()
ValidRowsNoExpiry(T, tok, t) ==
  {i \in 1 .. Len(T) : T[i].session_token = tok /\ T[i].is_active}

ValidRows(T, tok, t) ==
  {i \in 1 .. Len(T) : T[i].session_token = tok /\ T[i].is_active /\ T[i].expires_at > t}

\* refreshSession's lookup:
\* WHERE refresh_token = $1 AND is_active = true AND refresh_expires_at > NOW()
RefreshableRowsByAccessExpiry(T, tok, t) ==
  {i \in 1 .. Len(T) : T[i].refresh_token = tok /\ T[i].is_active /\ T[i].expires_at > t}

RefreshableRows(T, tok, t) ==
  {i \in 1 .. Len(T) :
     T[i].refresh_token = tok /\ T[i].is_active /\ T[i].refresh_expires_at > t}

\* INSERT INTO user_sessions (...) VALUES (...): is_active and last_used default.
NewSession(uid, st, rt) ==
  [ user_id |-> uid, session_token |-> st, refresh_token |-> rt,
    expires_at |-> now + ACCESS_TTL, refresh_expires_at |-> now + REFRESH_TTL,
    last_used |-> now, is_active |-> TRUE ]

\* History of generateSecureToken: the row a token was generated for, by which
\* call, whether the row was active at that write, and the expiry written with it.
IssuePair(sid, by, live) ==
  issued \o << [sid |-> sid, kind |-> "session", exp |-> now + ACCESS_TTL,
                 by |-> by, live |-> live],
               [sid |-> sid, kind |-> "refresh", exp |-> now + REFRESH_TTL,
                 by |-> by, live |-> live] >>

\* UPDATE user_sessions SET session_token = $1, refresh_token = $2, expires_at = $3,
\*   refresh_expires_at = $4, last_used = NOW() WHERE id = $5
RotatedReactivating(row, st, rt) ==
  [row EXCEPT !.session_token = st, !.refresh_token = rt,
              !.expires_at = now + ACCESS_TTL,
              !.refresh_expires_at = now + REFRESH_TTL,
              !.last_used = now, !.is_active = TRUE]

RotatedKeepingRefresh(row, st, rt) ==
  [row EXCEPT !.session_token = st,
              !.expires_at = now + ACCESS_TTL,
              !.refresh_expires_at = now + REFRESH_TTL,
              !.last_used = now]

RotatedExtending(row, st, rt) ==
  [row EXCEPT !.session_token = st, !.refresh_token = rt,
              !.expires_at = now + ACCESS_TTL,
              !.refresh_expires_at = row.refresh_expires_at,
              !.last_used = now]

Rotated(row, st, rt) ==
  [row EXCEPT !.session_token = st, !.refresh_token = rt,
              !.expires_at = now + ACCESS_TTL,
              !.refresh_expires_at = now + REFRESH_TTL,
              !.last_used = now]

\* UPDATE user_sessions SET is_active = false WHERE user_id = $1
RevokedOfAnyUser(T, uid) ==
  [i \in 1 .. Len(T) |-> [T[i] EXCEPT !.is_active = FALSE]]

RevokedOfUser(T, uid) ==
  [i \in 1 .. Len(T) |->
     IF T[i].user_id = uid THEN [T[i] EXCEPT !.is_active = FALSE] ELSE T[i]]

\* UPDATE user_sessions SET is_active = false WHERE session_token = $1
RevokedByToken(T, tok) ==
  [i \in 1 .. Len(T) |->
     IF T[i].session_token = tok THEN [T[i] EXCEPT !.is_active = FALSE] ELSE T[i]]

\* UPDATE user_sessions SET last_used = NOW() WHERE id = $1
Touched(T, sid) == [T EXCEPT ![sid].last_used = now]

StartCreateSession(p, seq) ==
  /\ CanStart(p, seq)
  /\ \E u \in Users :
       Set(p, [Idle EXCEPT !.pc = "cs_insert", !.op = "createSession", !.uid = u])
  /\ UNCHANGED <<userVars, now, ticks, audit, faults, rateVars, sessVars, vaultVars>>

\* createSession: two fresh tokens and one INSERT; a failure is rethrown.
CsInsert(p) ==
  /\ proc[p].pc = "cs_insert"
  /\ Len(user_sessions) < MaxSessions
  /\ Len(issued) + 2 <= MaxTokens
  /\ \E ok \in Outcomes :
       /\ Query(ok)
       /\ IF ok
            THEN /\ user_sessions' = Append(user_sessions,
                        NewSession(proc[p].uid, Len(issued) + 1, Len(issued) + 2))
                 /\ issued' = IssuePair(Len(user_sessions) + 1, "create", TRUE)
                 /\ Set(p, After([proc[p] EXCEPT !.sid = Len(user_sessions) + 1],
                                 "createSession", "tokens"))
            ELSE /\ UNCHANGED <<user_sessions, issued>>
                 /\ Set(p, After([proc[p] EXCEPT !.err = TRUE], "createSession", "throw"))
  /\ UNCHANGED <<users, minted, now, ticks, audit, rateVars, bulk, vaultVars>>
  /\ ObserveLogin(p)

StartValidateSession(p, seq) ==
  /\ CanStart(p, seq)
  /\ \E t \in 0 .. Len(issued) :
       Set(p, [Idle EXCEPT !.pc = "val_select", !.op = "validateSession", !.tok = t])
  /\ UNCHANGED <<userVars, now, ticks, audit, faults, rateVars, sessVars, vaultVars>>

\* validateSession: the SELECT; no row, or a failure, gives null.
ValSelect(p) ==
  /\ proc[p].pc = "val_select"
  /\ \E ok \in Outcomes :
       /\ Query(ok)
       /\ IF ~ok
            THEN Set(p, After([proc[p] EXCEPT !.err = TRUE, !.sid = 0], "validateSession", "null"))
            ELSE IF ValidRows(user_sessions, proc[p].tok, now) = {}
              THEN Set(p, After([proc[p] EXCEPT !.sid = 0], "validateSession", "null"))
              ELSE \E i \in ValidRows(user_sessions, proc[p].tok, now) :
                     Set(p, [proc[p] EXCEPT !.pc = "val_touch", !.sid = i,
                                            !.uid = user_sessions[i].user_id])
  /\ UNCHANGED <<userVars, now, ticks, audit, rateVars, sessVars, vaultVars>>

\* validateSession: the UPDATE of last_used, then the context is returned.
ValTouch(p) ==
  /\ proc[p].pc = "val_touch"
  /\ \E ok \in Outcomes :
       /\ Query(ok)
       /\ IF ok
            THEN /\ user_sessions' = Touched(user_sessions, proc[p].sid)
                 /\ Set(p, After(proc[p], "validateSession", "ctx"))
            ELSE /\ UNCHANGED user_sessions
                 /\ Set(p, After([proc[p] EXCEPT !.err = TRUE, !.sid = 0], "validateSession", "null"))
  /\ UNCHANGED <<userVars, now, ticks, audit, rateVars, issued, bulk, vaultVars>>

StartRefreshSession(p, seq) ==
  /\ CanStart(p, seq)
  /\ \E t \in 0 .. Len(issued) :
       Set(p, [Idle EXCEPT !.pc = "ref_select", !.op = "refreshSession", !.tok = t])
  /\ UNCHANGED <<userVars, now, ticks, audit, faults, rateVars, sessVars, vaultVars>>

\* refreshSession: the SELECT; no row, or a failure, gives null.
RefSelect(p) ==
  /\ proc[p].pc = "ref_select"
  /\ \E ok \in Outcomes :
       /\ Query(ok)
       /\ IF ~ok
            THEN Set(p, After([proc[p] EXCEPT !.err = TRUE], "refreshSession", "null"))
            ELSE IF RefreshableRows(user_sessions, proc[p].tok, now) = {}
              THEN Set(p, After(proc[p], "refreshSession", "null"))
              ELSE \E i \in RefreshableRows(user_sessions, proc[p].tok, now) :
                     Set(p, [proc[p] EXCEPT !.pc = "ref_update", !.sid = i,
                                            !.uid = user_sessions[i].user_id])
  /\ UNCHANGED <<userVars, now, ticks, audit, rateVars, sessVars, vaultVars>>

\* refreshSession: two fresh tokens, new expiries, one UPDATE of the row by id.
RefUpdate(p) ==
  /\ proc[p].pc = "ref_update"
  /\ Len(issued) + 2 <= MaxTokens
  /\ \E ok \in Outcomes :
       /\ Query(ok)
       /\ IF ok
            THEN /\ user_sessions' =
                      [user_sessions EXCEPT ![proc[p].sid] =
                         Rotated(@, Len(issued) + 1, Len(issued) + 2)]
                 /\ issued' = IssuePair(proc[p].sid, "refresh",
                                         user_sessions[proc[p].sid].is_active)
                 /\ Set(p, After(proc[p], "refreshSession", "tokens"))
            ELSE /\ UNCHANGED <<user_sessions, issued>>
                 /\ Set(p, After([proc[p] EXCEPT !.err = TRUE], "refreshSession", "null"))
  /\ UNCHANGED <<userVars, now, ticks, audit, rateVars, bulk, vaultVars>>

StartRevokeSession(p, seq) ==
  /\ CanStart(p, seq)
  /\ \E t \in 0 .. Len(issued) :
       Set(p, [Idle EXCEPT !.pc = "rev_update", !.op = "revokeSession", !.tok = t])
  /\ UNCHANGED <<userVars, now, ticks, audit, faults, rateVars, sessVars, vaultVars>>

\* revokeSession: one UPDATE; true, or false on a failure.
RevUpdate(p) ==
  /\ proc[p].pc = "rev_update"
  /\ \E ok \in Outcomes :
       /\ Query(ok)
       /\ IF ok
            THEN /\ user_sessions' = RevokedByToken(user_sessions, proc[p].tok)
                 /\ Set(p, After(proc[p], "revokeSession", "true"))
            ELSE /\ UNCHANGED user_sessions
                 /\ Set(p, After([proc[p] EXCEPT !.err = TRUE], "revokeSession", "false"))
  /\ UNCHANGED <<userVars, now, ticks, audit, rateVars, issued, bulk, vaultVars>>

StartRevokeAll(p, seq) ==
  /\ CanStart(p, seq)
  /\ \E u \in Users :
       Set(p, [Idle EXCEPT !.pc = "rall_update", !.op = "revokeAllUserSessions",
                           !.uid = u])
  /\ UNCHANGED <<userVars, now, ticks, audit, faults, rateVars, sessVars, vaultVars>>

\* revokeAllUserSessions: one bulk UPDATE; true, or false on a failure.
RallUpdate(p) ==
  /\ proc[p].pc = "rall_update"
  /\ \E ok \in Outcomes :
       /\ Query(ok)
       /\ IF ok
            THEN /\ user_sessions' = RevokedOfUser(user_sessions, proc[p].uid)
                 /\ bulk' = bulk \cup {i \in SessionIds :
                                         user_sessions[i].user_id = proc[p].uid}
                 /\ Set(p, After(proc[p], "revokeAllUserSessions", "true"))
            ELSE /\ UNCHANGED <<user_sessions, bulk>>
                 /\ Set(p, After([proc[p] EXCEPT !.err = TRUE], "revokeAllUserSessions", "false"))
  /\ UNCHANGED <<userVars, now, ticks, audit, rateVars, issued, vaultVars>>

\* ------------------------------------------------------------- handleLogout
\* The row that has tok as its session token (0: none); tokens are unique.
RowOfToken(T, tok) ==
  IF \E i \in 1 .. Len(T) : T[i].session_token = tok
    THEN CHOOSE i \in 1 .. Len(T) : T[i].session_token = tok
    ELSE 0

\* The bearer token of the header (NULL: no header, answered 400); target
\* notes the record the token identifies as the request begins. Then
\* validateSession(sessionToken), revokeSession(sessionToken), whose result
\* is not looked at, and the log when validateSession returned a session.
StartLogout(p, seq) ==
  /\ CanStart(p, seq)
  /\ BagCardinality(audit) < MaxLogouts
  /\ \E t \in {NULL} \cup (1 .. Len(issued)) :
       LET r == [Idle EXCEPT !.pc = "val_select", !.op = "logout", !.tok = t,
                             !.target = RowOfToken(user_sessions, t)]
       IN Set(p, IF t = NULL THEN Finish(r, "400") ELSE r)
  /\ UNCHANGED <<userVars, now, ticks, rate_limits, audit, faults, rlobs, sessVars, vaultVars>>

\* logSecurityEvent(session.userId, 'logout', ..., true); return 200
LogoutLog(p) ==
  /\ proc[p].pc = "logout_log"
  /\ \E ok \in Outcomes :
       /\ Query(ok)
       /\ audit' = AuditAppend(ok, proc[p].uid, "logout", TRUE)
       /\ Set(p, AfterLog(proc[p], ok))
  /\ UNCHANGED <<userVars, now, ticks, rate_limits, rlobs, sessVars, vaultVars>>

\* -------------------------------------------------------------- handleLogin

\* The run is bounded: a login starts while the audit log is short of MaxAudit
\* rows and fewer than MaxLogins logins have succeeded.
Room ==
  /\ BagCardinality(audit) < MaxAudit
  /\ Len(user_sessions) < MaxLogins

StartLogin(p, seq) ==
  /\ CanStart(p, seq)
  /\ Room
  /\ \E id \in Idents, b \in {"json", "garbage"},
        e \in LoginUsers \cup {"nobody", "none"}, w \in Passwords \cup {"none"} :
       /\ b = "garbage" => (e = "none" /\ w = "none")
       /\ Set(p, [Idle EXCEPT !.pc = "rl_enter", !.op = "login", !.ip = id,
                              !.ep = "login", !.body = b, !.email = e, !.pw = w])
  /\ UNCHANGED <<userVars, now, ticks, rate_limits, audit, faults, rlobs, sessVars, vaultVars>>

\* SELECT id, ..., password_hash, ... FROM users WHERE email = $1
LoginSelect(p) ==
  /\ proc[p].pc = "login_select"
  /\ \E ok \in Outcomes :
       /\ Query(ok)
       /\ LET r == proc[p] IN
          IF ~ok THEN Set(p, [r EXCEPT !.pc = "handler_catch", !.err = TRUE, !.thrown = "store"])
          ELSE IF r.email \notin DOMAIN users THEN Set(p, [r EXCEPT !.pc = "login_log_invalid"])
          ELSE Set(p, [r EXCEPT !.pc = "lock_select", !.uid = r.email,
                                !.hash = users[r.email].password_hash])
  /\ UNCHANGED <<userVars, now, ticks, rate_limits, audit, rlobs, sessVars, vaultVars>>

\* logSecurityEvent(null, 'login_invalid_email', ...); return 401
LoginLogInvalid(p) ==
  /\ proc[p].pc = "login_log_invalid"
  /\ \E ok \in Outcomes :
       /\ Query(ok)
       /\ audit' = AuditAppend(ok, "null", "login_invalid_email", FALSE)
       /\ Set(p, AfterLog(proc[p], ok))
  /\ UNCHANGED <<userVars, now, ticks, rate_limits, rlobs, sessVars, vaultVars>>

\* const isValidPassword = await verifyPassword(password, user.password_hash)
Verified(r) ==
  [r EXCEPT !.pc = IF VerifyPassword(r.pw, r.hash) THEN "succ_update" ELSE "fail_update"]

\* checkAccountLockout: the SELECT and the two tests of locked_until; a failure
\* is caught and answers false.
LockSelect(p) ==
  /\ proc[p].pc = "lock_select"
  /\ \E ok \in Outcomes :
       /\ Query(ok)
       /\ LET r == proc[p]
              u == users[r.uid]
          IN IF ~ok THEN Set(p, Verified([r EXCEPT !.err = TRUE]))
             ELSE IF u.locked_until # NULL /\ u.locked_until > now
               THEN Set(p, [r EXCEPT !.pc = "login_log_locked"])
             ELSE IF u.locked_until # NULL /\ u.locked_until <= now
               THEN Set(p, [r EXCEPT !.pc = "lock_clear"])
             ELSE Set(p, Verified(r))
  /\ UNCHANGED <<userVars, now, ticks, rate_limits, audit, rlobs, sessVars, vaultVars>>

\* UPDATE users SET failed_login_attempts = 0, locked_until = NULL WHERE id = $1
UnlockedKeepingCount(U, uid) == [U EXCEPT ![uid].locked_until = NULL]

Unlocked(U, uid) ==
  [U EXCEPT ![uid].failed_login_attempts = 0, ![uid].locked_until = NULL]

\* checkAccountLockout: the expired lockout is cleared; a failure answers false.
LockClear(p) ==
  /\ proc[p].pc = "lock_clear"
  /\ \E ok \in Outcomes :
       /\ Query(ok)
       /\ users' = IF ok THEN Unlocked(users, proc[p].uid) ELSE users
       /\ Set(p, Verified([proc[p] EXCEPT !.err = @ \/ ~ok]))
  /\ UNCHANGED <<minted, streak, now, ticks, rate_limits, audit, rlobs, sessVars, vaultVars>>

\* logSecurityEvent(user.id, 'login_account_locked', ...); return 423
LoginLogLocked(p) ==
  /\ proc[p].pc = "login_log_locked"
  /\ \E ok \in Outcomes :
       /\ Query(ok)
       /\ audit' = AuditAppend(ok, proc[p].uid, "login_account_locked", FALSE)
       /\ Set(p, AfterLog(proc[p], ok))
  /\ UNCHANGED <<users, minted, now, ticks, rate_limits, rlobs, sessVars, vaultVars>>
  /\ ObserveLogin(p)

\* UPDATE users SET failed_login_attempts = failed_login_attempts + 1,
\*   locked_until = CASE WHEN failed_login_attempts + 1 >= $1
\*                       THEN NOW() + duration ELSE locked_until END
FailedLoginCountOnly(U, uid) ==
  [U EXCEPT ![uid].failed_login_attempts = @ + 1]

FailedLoginLate(U, uid) ==
  [U EXCEPT ![uid] =
     [@ EXCEPT !.failed_login_attempts = @ + 1,
               !.locked_until =
                  IF U[uid].failed_login_attempts + 1 > ACCOUNT_LOCKOUT.threshold
                    THEN now + ACCOUNT_LOCKOUT.duration ELSE @]]

FailedLogin(U, uid) ==
  [U EXCEPT ![uid] =
     [@ EXCEPT !.failed_login_attempts = @ + 1,
               !.locked_until =
                  IF U[uid].failed_login_attempts + 1 >= ACCOUNT_LOCKOUT.threshold
                    THEN now + ACCOUNT_LOCKOUT.duration ELSE @]]

\* handleFailedLogin: the UPDATE; a failure is caught, nothing is logged, and
\* the handler answers 401 all the same.
FailUpdate(p) ==
  /\ proc[p].pc = "fail_update"
  /\ \E ok \in Outcomes :
       /\ Query(ok)
       /\ IF ok
            THEN /\ users' = FailedLogin(users, proc[p].uid)
                 /\ Set(p, [proc[p] EXCEPT !.pc = "fail_log",
                       !.attempts = users'[proc[p].uid].failed_login_attempts])
            ELSE /\ UNCHANGED users
                 /\ Set(p, Finish([proc[p] EXCEPT !.err = TRUE], "401"))
  /\ UNCHANGED <<minted, now, ticks, rate_limits, audit, rlobs, sessVars, vaultVars>>
  /\ ObserveLogin(p)

\* handleFailedLogin: logSecurityEvent(userId, 'failed_login', ...); return 401
FailLog(p) ==
  /\ proc[p].pc = "fail_log"
  /\ \E ok \in Outcomes :
       /\ Query(ok)
       /\ audit' = AuditAppend(ok, proc[p].uid, "failed_login", FALSE)
       /\ Set(p, AfterLog(proc[p], ok))
  /\ UNCHANGED <<users, minted, now, ticks, rate_limits, rlobs, sessVars, vaultVars>>
  /\ ObserveLogin(p)

\* handleSuccessfulLogin: the UPDATE; a failure is caught and skips the log.
SuccUpdate(p) ==
  /\ proc[p].pc = "succ_update"
  /\ \E ok \in Outcomes :
       /\ Query(ok)
       /\ IF ok
            THEN /\ users' = Unlocked(users, proc[p].uid)
                 /\ Set(p, [proc[p] EXCEPT !.pc = "succ_log"])
            ELSE /\ UNCHANGED users
                 /\ Set(p, [proc[p] EXCEPT !.pc = "cs_insert", !.err = TRUE])
  /\ UNCHANGED <<minted, streak, now, ticks, rate_limits, audit, rlobs, sessVars, vaultVars>>

\* handleSuccessfulLogin: logSecurityEvent(userId, 'login', ..., true)
SuccLog(p) ==
  /\ proc[p].pc = "succ_log"
  /\ \E ok \in Outcomes :
       /\ Query(ok)
       /\ audit' = AuditAppend(ok, proc[p].uid, "login", TRUE)
       /\ Set(p, AfterLog(proc[p], ok))
  /\ UNCHANGED <<userVars, now, ticks, rate_limits, rlobs, sessVars, vaultVars>>

\* The handler's catch: its error event is logged and the error thrown on.
CatchEvent(r) ==
  CASE r.op = "login"          -> [uid |-> "null", type |-> "login_error"]
    [] r.op = "register"       -> [uid |-> "null", type |-> "registration_error"]
    [] r.op = "changePassword" -> [uid |-> r.uid,  type |-> "password_change_error"]
    [] OTHER                   -> [uid |-> "null", type |-> "password_reset_error"]

HandlerCatch(p) ==
  /\ proc[p].pc = "handler_catch"
  /\ \E ok \in Outcomes :
       /\ Query(ok)
       /\ audit' = AuditAppend(ok, CatchEvent(proc[p]).uid, CatchEvent(proc[p]).type, FALSE)
       /\ Set(p, AfterLog(proc[p], ok))
  /\ UNCHANGED <<userVars, now, ticks, rate_limits, rlobs, sessVars, vaultVars>>

\* exports.main, catch: logSecurityEvent(null, 'auth_error', ...); return 500
MainCatch(p) ==
  /\ proc[p].pc = "main_catch"
  /\ \E ok \in Outcomes :
       /\ Query(ok)
       /\ audit' = AuditAppend(ok, "null", "auth_error", FALSE)
       /\ Set(p, AfterLog(proc[p], ok))
  /\ UNCHANGED <<users, minted, now, ticks, rate_limits, rlobs, sessVars, vaultVars>>
  /\ ObserveLogin(p)

\* ------------------------------------------------- handleChangePassword
\* The Authorization header (NULL: none, 0: a token never issued), then
\* validateSession(sessionToken).
StartChangePassword(p, seq) ==
  /\ CanStart(p, seq)
  /\ BagCardinality(audit) < MaxPwAudit
  /\ \E t \in {NULL} \cup (0 .. Len(issued)), b \in {"json", "garbage"},
        w \in Passwords \cup {"none"}, n \in Passwords \cup {"weak", "none"} :
       /\ b = "garbage" => (w = "none" /\ n = "none")
       /\ LET r == [Idle EXCEPT !.pc = "val_select", !.op = "changePassword",
                                !.tok = t, !.body = b, !.pw = w, !.npw = n]
          IN Set(p, IF t = NULL THEN Finish(r, "401") ELSE r)
  /\ UNCHANGED <<userVars, now, ticks, rate_limits, audit, faults, rlobs, sessVars, vaultVars>>

\* SELECT password_hash FROM users WHERE id = $1, then verifyPassword
ChgSelect(p) ==
  /\ proc[p].pc = "chg_select"
  /\ \E ok \in Outcomes :
       /\ Query(ok)
       /\ LET r == proc[p] IN
          IF ~ok THEN Set(p, [r EXCEPT !.pc = "handler_catch", !.err = TRUE, !.thrown = "store"])
          ELSE IF VerifyPassword(r.pw, users[r.uid].password_hash)
            THEN Set(p, [r EXCEPT !.pc = "chg_update"])
            ELSE Set(p, [r EXCEPT !.pc = "chg_log_invalid"])
  /\ UNCHANGED <<userVars, now, ticks, rate_limits, audit, rlobs, sessVars, vaultVars>>

\* logSecurityEvent(session.userId, 'password_change_invalid', ...); return 401
ChgLogInvalid(p) ==
  /\ proc[p].pc = "chg_log_invalid"
  /\ \E ok \in Outcomes :
       /\ Query(ok)
       /\ audit' = AuditAppend(ok, proc[p].uid, "password_change_invalid", FALSE)
       /\ Set(p, AfterLog(proc[p], ok))
  /\ UNCHANGED <<userVars, now, ticks, rate_limits, rlobs, sessVars, vaultVars>>

\* UPDATE users SET password_hash = $1 WHERE id = $2, then revokeAllUserSessions
ChgUpdate(p) ==
  /\ proc[p].pc = "chg_update"
  /\ \E ok \in Outcomes :
       /\ Query(ok)
       /\ IF ok
            THEN /\ users' = [users EXCEPT ![proc[p].uid].password_hash = Hash(proc[p].npw)]
                 /\ Set(p, [proc[p] EXCEPT !.pc = "rall_update"])
            ELSE /\ UNCHANGED users
                 /\ Set(p, [proc[p] EXCEPT !.pc = "handler_catch", !.err = TRUE, !.thrown = "store"])
  /\ UNCHANGED <<minted, streak, now, ticks, rate_limits, audit, rlobs, sessVars, vaultVars>>

\* logSecurityEvent(session.userId, 'password_change_success', ...); return 200
ChgLogOk(p) ==
  /\ proc[p].pc = "chg_log_ok"
  /\ \E ok \in Outcomes :
       /\ Query(ok)
       /\ audit' = AuditAppend(ok, proc[p].uid, "password_change_success", TRUE)
       /\ Set(p, AfterLog(proc[p], ok))
  /\ UNCHANGED <<userVars, now, ticks, rate_limits, rlobs, sessVars, vaultVars>>

\* ------------------------------------------------- handleForgotPassword
StartForgotPassword(p, seq) ==
  /\ CanStart(p, seq)
  /\ BagCardinality(audit) < MaxPwAudit
  /\ \E id \in Idents, b \in {"json", "garbage"}, e \in Users \cup {"nobody", "none"} :
       /\ b = "garbage" => e = "none"
       /\ Set(p, [Idle EXCEPT !.pc = "rl_enter", !.op = "forgotPassword", !.ip = id,
                              !.ep = "password_reset", !.body = b, !.email = e])
  /\ UNCHANGED <<userVars, now, ticks, rate_limits, audit, faults, rlobs, sessVars, vaultVars>>

\* SELECT id FROM users WHERE email = $1; an unknown email is answered 200 too.
FgtSelect(p) ==
  /\ proc[p].pc = "fgt_select"
  /\ \E ok \in Outcomes :
       /\ Query(ok)
       /\ LET r == proc[p] IN
          IF ~ok THEN Set(p, [r EXCEPT !.pc = "handler_catch", !.err = TRUE, !.thrown = "store"])
          ELSE IF r.email \notin DOMAIN users THEN Set(p, Finish(r, "200"))
          ELSE Set(p, [r EXCEPT !.pc = "fgt_update", !.uid = r.email])
  /\ UNCHANGED <<userVars, now, ticks, rate_limits, audit, rlobs, sessVars, vaultVars>>

\* UPDATE users SET password_reset_token = $1, password_reset_expires = $2
\* with a fresh token and an expiry one hour ahead.
FgtUpdate(p) ==
  /\ proc[p].pc = "fgt_update"
  /\ minted < MaxResets
  /\ \E ok \in Outcomes :
       /\ Query(ok)
       /\ IF ok
            THEN /\ users' = [users EXCEPT
                                ![proc[p].uid].password_reset_token = minted + 1,
                                ![proc[p].uid].password_reset_expires = now + RESET_TTL]
                 /\ Set(p, [proc[p] EXCEPT !.pc = "fgt_log"])
            ELSE /\ UNCHANGED users
                 /\ Set(p, [proc[p] EXCEPT !.pc = "handler_catch", !.err = TRUE, !.thrown = "store"])
       /\ minted' = minted + 1
  /\ UNCHANGED <<streak, now, ticks, rate_limits, audit, rlobs, sessVars, vaultVars>>

\* logSecurityEvent(userId, 'password_reset_request', ..., true); return 200
FgtLog(p) ==
  /\ proc[p].pc = "fgt_log"
  /\ \E ok \in Outcomes :
       /\ Query(ok)
       /\ audit' = AuditAppend(ok, proc[p].uid, "password_reset_request", TRUE)
       /\ Set(p, AfterLog(proc[p], ok))
  /\ UNCHANGED <<userVars, now, ticks, rate_limits, rlobs, sessVars, vaultVars>>

\* -------------------------------------------------- handleResetPassword
\* The token of the request: 0 for none, minted + 1 for one never generated.
StartResetPassword(p, seq) ==
  /\ CanStart(p, seq)
  /\ BagCardinality(audit) < MaxPwAudit
  /\ \E t \in 0 .. minted + 1, b \in {"json", "garbage"},
        n \in Passwords \cup {"weak", "none"} :
       /\ b = "garbage" => (t = 0 /\ n = "none")
       /\ Set(p, ResetBody([Idle EXCEPT !.op = "resetPassword", !.tok = t,
                                        !.body = b, !.npw = n]))
  /\ UNCHANGED <<userVars, now, ticks, rate_limits, audit, faults, rlobs, sessVars, vaultVars>>

\* WHERE password_reset_token = $1 AND password_reset_expires > NOW()
ResetTokenRows(U, tok, t) ==
  {u \in DOMAIN U : U[u].password_reset_token = tok /\ U[u].password_reset_expires > t}

RstSelect(p) ==
  /\ proc[p].pc = "rst_select"
  /\ \E ok \in Outcomes :
       /\ Query(ok)
       /\ LET r == proc[p] IN
          IF ~ok THEN Set(p, [r EXCEPT !.pc = "handler_catch", !.err = TRUE, !.thrown = "store"])
          ELSE IF ResetTokenRows(users, r.tok, now) = {}
            THEN Set(p, [r EXCEPT !.pc = "rst_log_invalid"])
            ELSE \E u \in ResetTokenRows(users, r.tok, now) :
                   Set(p, [r EXCEPT !.pc = "rst_update", !.uid = u])
  /\ UNCHANGED <<userVars, now, ticks, rate_limits, audit, rlobs, sessVars, vaultVars>>

\* logSecurityEvent(null, 'password_reset_invalid_token', ...); return 400
RstLogInvalid(p) ==
  /\ proc[p].pc = "rst_log_invalid"
  /\ \E ok \in Outcomes :
       /\ Query(ok)
       /\ audit' = AuditAppend(ok, "null", "password_reset_invalid_token", FALSE)
       /\ Set(p, AfterLog(proc[p], ok))
  /\ UNCHANGED <<userVars, now, ticks, rate_limits, rlobs, sessVars, vaultVars>>

\* UPDATE users SET password_hash = $1, password_reset_token = NULL,
\*   password_reset_expires = NULL, failed_login_attempts = 0, locked_until = NULL
RstUpdate(p) ==
  /\ proc[p].pc = "rst_update"
  /\ \E ok \in Outcomes :
       /\ Query(ok)
       /\ IF ok
            THEN /\ users' = [users EXCEPT ![proc[p].uid] =
                                [ password_hash |-> Hash(proc[p].npw),
                                  failed_login_attempts |-> 0, locked_until |-> NULL,
                                  password_reset_token |-> NULL,
                                  password_reset_expires |-> NULL ]]
                 /\ Set(p, [proc[p] EXCEPT !.pc = "rall_update"])
            ELSE /\ UNCHANGED users
                 /\ Set(p, [proc[p] EXCEPT !.pc = "handler_catch", !.err = TRUE, !.thrown = "store"])
  /\ UNCHANGED <<minted, streak, now, ticks, rate_limits, audit, rlobs, sessVars, vaultVars>>

\* logSecurityEvent(user.id, 'password_reset_success', ..., true); return 200
RstLogOk(p) ==
  /\ proc[p].pc = "rst_log_ok"
  /\ \E ok \in Outcomes :
       /\ Query(ok)
       /\ audit' = AuditAppend(ok, proc[p].uid, "password_reset_success", TRUE)
       /\ Set(p, AfterLog(proc[p], ok))
  /\ UNCHANGED <<userVars, now, ticks, rate_limits, rlobs, sessVars, vaultVars>>

\* ----------------------------------------------------------- handleRegister
\* INSERT INTO users (email, password_hash, name, created_at): the other
\* columns take their defaults.
NewUser(h) ==
  [ password_hash |-> h, failed_login_attempts |-> 0, locked_until |-> NULL,
    password_reset_token |-> NULL, password_reset_expires |-> NULL ]

\* The emails register requests carry: one that is taken, one that is free.
RegEmails == {"u1", "u3"}

StartRegister(p, seq) ==
  /\ CanStart(p, seq)
  /\ BagCardinality(audit) < MaxRegAudit
  /\ \E id \in Idents, b \in {"json", "garbage"},
        e \in RegEmails \cup {"bad", "none"}, w \in {"pw1", "weak", "none"} :
       /\ b = "garbage" => (e = "none" /\ w = "none")
       /\ Set(p, [Idle EXCEPT !.pc = "rl_enter", !.op = "register", !.ip = id,
                              !.ep = "register", !.body = b, !.email = e, !.pw = w])
  /\ UNCHANGED <<userVars, now, ticks, rate_limits, audit, faults, rlobs, sessVars, vaultVars>>

\* SELECT id FROM users WHERE email = $1
RegSelect(p) ==
  /\ proc[p].pc = "reg_select"
  /\ \E ok \in Outcomes :
       /\ Query(ok)
       /\ LET r == proc[p] IN
          IF ~ok THEN Set(p, [r EXCEPT !.pc = "handler_catch", !.err = TRUE, !.thrown = "store"])
          ELSE IF r.email \in DOMAIN users THEN Set(p, [r EXCEPT !.pc = "reg_log_dup"])
          ELSE Set(p, [r EXCEPT !.pc = "reg_insert"])
  /\ UNCHANGED <<userVars, now, ticks, rate_limits, audit, rlobs, sessVars, vaultVars>>

\* logSecurityEvent(null, 'registration_duplicate_email', ...); return 409
RegLogDup(p) ==
  /\ proc[p].pc = "reg_log_dup"
  /\ \E ok \in Outcomes :
       /\ Query(ok)
       /\ audit' = AuditAppend(ok, "null", "registration_duplicate_email", FALSE)
       /\ Set(p, AfterLog(proc[p], ok))
  /\ UNCHANGED <<userVars, now, ticks, rate_limits, rlobs, sessVars, vaultVars>>

\* hashPassword, then INSERT INTO users ... RETURNING id: the store rejects a
\* second row with the same email (email UNIQUE) and the INSERT throws.
RegInsert(p) ==
  /\ proc[p].pc = "reg_insert"
  /\ \E ok \in Outcomes :
       /\ Query(ok)
       /\ LET r == proc[p] IN
          IF ~ok
            THEN /\ UNCHANGED users
                 /\ Set(p, [r EXCEPT !.pc = "handler_catch", !.err = TRUE, !.thrown = "store"])
          ELSE IF r.email \in DOMAIN users
            THEN /\ UNCHANGED users
                 /\ Set(p, [r EXCEPT !.pc = "handler_catch", !.thrown = "duplicate key"])
          ELSE /\ users' = users @@ (r.email :> NewUser(Hash(r.pw)))
               /\ Set(p, [r EXCEPT !.pc = "cs_insert", !.uid = r.email])
  /\ UNCHANGED <<minted, streak, now, ticks, rate_limits, audit, rlobs, sessVars, vaultVars>>

\* logSecurityEvent(user.id, 'registration', ..., true); return 201
RegLog(p) ==
  /\ proc[p].pc = "reg_log"
  /\ \E ok \in Outcomes :
       /\ Query(ok)
       /\ audit' = AuditAppend(ok, proc[p].uid, "registration", TRUE)
       /\ Set(p, AfterLog(proc[p], ok))
  /\ UNCHANGED <<userVars, now, ticks, rate_limits, rlobs, sessVars, vaultVars>>

\* -------------------------------------------------------- EncryptionManager
\* Master keys, the salts crypto.randomBytes(16) can give, and the values to
\* encrypt.
Keys == {"k1", "k2"}
Salts == {"s1", "s2"}
Values == {"x1", "x2"}

\* JSON.stringify / JSON.parse of a serializable value.
Stringify(x) == <<"json", x>>

Parse(t) == t[2]

\* createHash('sha256').update(masterKey).digest('hex').substring(0, 16)
KeyId(k) == <<"sha256/16", k>>

\* deriveKey: pbkdf2Sync(password, salt, 100000, 32, 'sha256')
DeriveKey(k, salt) == <<"pbkdf2", k, salt>>

\* getAuthTag: the tag binds the cipher key, the AAD (the salt) and the text.
AuthTag(key, salt, text) == <<"tag", key, salt, text>>

\* encrypt(data): the text is enciphered under the key derived from the master
\* key and a fresh salt; the iv is generated and stored but not given to the
\* cipher.
Encrypt(k, salt, iv, data) ==
  LET key == DeriveKey(k, salt)
  IN [ encrypted |-> <<"aes-256-gcm", key, Stringify(data)>>,
       salt |-> salt, iv |-> iv,
       authTag |-> AuthTag(key, salt, Stringify(data)),
       keyId |-> KeyId(k) ]

\* decrypt(encryptedData): the key id is compared first; then the text is
\* deciphered under the derived key, and final() throws unless the tag fits.
DecryptUnchecked(k, e) ==
  LET key == DeriveKey(k, e.salt)
  IN IF e.encrypted[2] = key /\ e.authTag = AuthTag(key, e.salt, e.encrypted[3])
       THEN [thrown |-> "none", value |-> Parse(e.encrypted[3])]
       ELSE [thrown |-> "unable to authenticate data", value |-> "none"]

Decrypt(k, e) ==
  IF e.keyId # KeyId(k)
    THEN [thrown |-> "Encryption key mismatch", value |-> "none"]
    ELSE LET key == DeriveKey(k, e.salt)
         IN IF e.encrypted[2] = key /\ e.authTag = AuthTag(key, e.salt, e.encrypted[3])
              THEN [thrown |-> "none", value |-> Parse(e.encrypted[3])]
              ELSE [thrown |-> "unable to authenticate data", value |-> "none"]

\* A call of encrypt on a value, under the current master key.
DoEncrypt(p) ==
  /\ CanStart(p, FALSE)
  /\ \E x \in Values, s \in Salts :
       Set(p, [Idle EXCEPT !.pc = "done", !.op = "encrypt", !.res = "value",
                           !.val = x, !.box = Encrypt(masterKey, s, "iv", x)])
  /\ UNCHANGED <<userVars, now, ticks, rate_limits, audit, faults, rlobs, sessVars, vaultVars>>

\* A call of decrypt on a record that encrypt has returned.
DoDecrypt(p) ==
  /\ CanStart(p, FALSE)
  /\ \E q \in Procs :
       /\ proc[q].box # NoBox
       /\ LET d == Decrypt(masterKey, proc[q].box)
          IN Set(p, [Idle EXCEPT !.pc = "done", !.op = "decrypt",
                                 !.res = IF d.thrown = "none" THEN "value" ELSE "throw",
                                 !.val = d.value, !.thrown = d.thrown,
                                 !.box = proc[q].box])
  /\ UNCHANGED <<userVars, now, ticks, rate_limits, audit, faults, rlobs, sessVars, vaultVars>>

\* The process is started again with another ENCRYPTION_MASTER_KEY.
Rekey ==
  /\ \E k \in Keys \ {masterKey} : masterKey' = k
  /\ UNCHANGED <<userVars, now, ticks, rate_limits, audit, proc, faults, rlobs, sessVars,
                 encrypted_data, api_keys, shown>>

\* ------------------------------------------- settingsManagement: exports.main
\* An error thrown in the settings handler reaches the catch of exports.main:
\* 401 for the two authentication messages, else 500 with the message.
SettingsThrow(r, msg) ==
  LET t == [r EXCEPT !.thrown = msg]
  IN IF msg \in {"Authentication required", "Invalid token"} THEN Finish(t, "401")
     ELSE Finish(t, "500")

\* The routes, once getUserFromRequest has returned the user.
SettingsRoute(r) ==
  CASE r.op = "apiKeyList" -> [r EXCEPT !.pc = "key_list"]
    [] r.op = "apiKeyCreate" ->
         IF r.body = "garbage" THEN SettingsThrow(r, "SyntaxError")
         ELSE IF r.name = "none" THEN Finish(r, "400")
         ELSE [r EXCEPT !.pc = "key_begin"]
    [] r.op = "apiKeyRevoke" ->
         IF r.tok = 0 THEN Finish(r, "400") ELSE [r EXCEPT !.pc = "key_revoke"]
    [] OTHER ->
         IF r.body = "garbage" THEN SettingsThrow(r, "SyntaxError")
         ELSE IF r.confirmation # "DELETE MY ACCOUNT" THEN Finish(r, "400")
         ELSE [r EXCEPT !.pc = "del_txn"]

\* getUserFromRequest, up to its query. bearer is what the Authorization
\* header carries: "none" for no Bearer header, "invalid" for a token that
\* verifyToken rejects, else the subject of a valid signed token ("u9": an id
\* of no account). Without a Bearer header the id is body.user_id, and
\* without that the query parameter user_id.
UserIdOf(h, bu, qu) ==
  IF h # "none" THEN h ELSE IF bu # "none" THEN bu ELSE qu

\* What a request may carry in each of the three places.
Bearers == Users \cup {"u9", "none", "invalid"}
UserIds == Users \cup {"u9", "none"}

\* A settings request whose Authorization header, body.user_id and query
\* parameter user_id are drawn from hs, bs and qs. tok is the key id of the
\* path (0: not a number).
SettingsRequest(p, seq, hs, bs, qs) ==
  /\ CanStart(p, seq)
  /\ \E o \in SettingsOps, h \in hs, bu \in bs, qu \in qs, b \in {"json", "garbage"},
        n \in {"key", "none"}, c \in {"DELETE MY ACCOUNT", "no"}, t \in 0 .. 1 :
       /\ o = "apiKeyCreate" => (c = "no" /\ t = 0 /\ (b = "garbage" => n = "none"))
       /\ o = "apiKeyList" => (c = "no" /\ t = 0 /\ n = "none" /\ b = "json")
       /\ o = "apiKeyRevoke" => (c = "no" /\ n = "none" /\ b = "json")
       /\ o = "deleteAccount" => (t = 0 /\ n = "none" /\ (b = "garbage" => c = "no"))
       /\ b = "garbage" => bu = "none"
       /\ LET u == UserIdOf(h, bu, qu)
              r == [Idle EXCEPT !.pc = "set_user", !.op = o, !.uid = u, !.body = b,
                                !.name = n, !.confirmation = c, !.tok = t,
                                !.bearer = h]
          IN Set(p, IF h = "invalid" THEN SettingsThrow(r, "Invalid authorization token")
                    ELSE IF u = "none" THEN SettingsThrow(r, "Authentication required")
                    ELSE r)
  /\ UNCHANGED <<userVars, now, ticks, rate_limits, audit, faults, rlobs, sessVars, vaultVars>>

\* A request that names its user in the Authorization header or nowhere.
StartSettings(p, seq) == SettingsRequest(p, seq, Bearers, {"none"}, {"none"})

\* A request that may name its user in any of the three places.
StartSettingsAnyId(p, seq) == SettingsRequest(p, seq, Bearers, UserIds, UserIds)

\* getUserFromRequest: SELECT id, email, name FROM users WHERE id = $1
SetUser(p) ==
  /\ proc[p].pc = "set_user"
  /\ \E ok \in Outcomes :
       /\ Query(ok)
       /\ LET r == proc[p] IN
          IF ~ok THEN Set(p, SettingsThrow([r EXCEPT !.err = TRUE], "store"))
          ELSE IF r.uid \notin DOMAIN users THEN Set(p, SettingsThrow(r, "User not found"))
          ELSE Set(p, SettingsRoute(r))
  /\ UNCHANGED <<userVars, now, ticks, rate_limits, audit, rlobs, sessVars, vaultVars>>

\* ------------------------------------------------------------ handleApiKeys
\* generateApiKey: 'pnit_' and a fresh token; the preview is its first 8
\* characters and '...'.
PlainKey(k) == <<"pnit_", k>>

Preview(k) == <<"substring(0, 8)", k, "...">>

\* The row that handleApiKeys inserts: it gives no key_hash.
NewApiKey(uid, name, eid, k) ==
  [ user_id |-> uid, name |-> name, encrypted_key_id |-> eid, key_preview |-> Preview(k),
    key_hash |-> NULL, is_active |-> TRUE ]

\* api_keys.key_hash is VARCHAR(64) NOT NULL: the store takes no row without it.
ApiKeyAccepted(row) == row.key_hash # NULL

\* The row that storeEncryptedData inserts.
NewEncrypted(uid, type, e) ==
  [ user_id |-> uid, data_type |-> type, encrypted_data |-> Stringify(e),
    encryption_key_id |-> e.keyId ]

\* The catch blocks of the POST branch: ROLLBACK, rethrow, and in the outer
\* catch the arguments of logSecurityEvent name clientIp, which is not
\* defined in handleApiKeys, so a ReferenceError goes on to exports.main.
KeyFailed(r) == [r EXCEPT !.pc = "key_rollback"]

\* GET: SELECT id, name, key_preview, ... FROM api_keys WHERE user_id = $1 AND
\* is_active = true; the response lists the previews.
KeyList(p) ==
  /\ proc[p].pc = "key_list"
  /\ \E ok \in Outcomes :
       /\ Query(ok)
       /\ IF ok THEN Set(p, Finish(proc[p], "200"))
                ELSE Set(p, SettingsThrow([proc[p] EXCEPT !.err = TRUE], "store"))
  /\ UNCHANGED <<userVars, now, ticks, rate_limits, audit, rlobs, sessVars, vaultVars>>

\* POST: generateApiKey(), then db.pool.connect() and BEGIN.
KeyBegin(p) ==
  /\ proc[p].pc = "key_begin"
  /\ Len(shown) < MaxKeys
  /\ shown' = Append(shown, 0)
  /\ \E ok \in Outcomes :
       /\ Query(ok)
       /\ LET r == [proc[p] EXCEPT !.key = Len(shown) + 1] IN
          IF ok THEN Set(p, [r EXCEPT !.pc = "key_store"])
                ELSE Set(p, SettingsThrow([r EXCEPT !.err = TRUE], "clientIp is not defined"))
  /\ UNCHANGED <<userVars, now, ticks, rate_limits, audit, rlobs, sessVars,
                 masterKey, encrypted_data, api_keys>>

\* storeEncryptedData(user.id, 'api_key', {key: apiKey, ...}): encrypt and
\* INSERT INTO encrypted_data, through the pool and so outside the transaction.
KeyStore(p) ==
  /\ proc[p].pc = "key_store"
  /\ \E ok \in Outcomes, s \in Salts :
       /\ Query(ok)
       /\ LET r == proc[p]
              e == Encrypt(masterKey, s, "iv", [key |-> PlainKey(r.key), created_by |-> r.uid])
          IN IF ok
               THEN /\ encrypted_data' = Append(encrypted_data, NewEncrypted(r.uid, "api_key", e))
                    /\ Set(p, [r EXCEPT !.pc = "key_insert", !.sid = Len(encrypted_data) + 1])
               ELSE /\ UNCHANGED encrypted_data
                    /\ Set(p, KeyFailed([r EXCEPT !.err = TRUE]))
  /\ UNCHANGED <<userVars, now, ticks, rate_limits, audit, rlobs, sessVars,
                 masterKey, api_keys, shown>>

\* INSERT INTO api_keys (user_id, name, encrypted_key_id, key_preview, ...) on the
\* transaction's client.
KeyInsert(p) ==
  /\ proc[p].pc = "key_insert"
  /\ \E ok \in Outcomes :
       /\ Query(ok)
       /\ LET r == proc[p]
              row == NewApiKey(r.uid, r.name, r.sid, r.key)
          IN IF ok /\ ApiKeyAccepted(row)
               THEN /\ api_keys' = Append(api_keys, row)
                    /\ Set(p, [r EXCEPT !.pc = "key_commit"])
               ELSE /\ UNCHANGED api_keys
                    /\ Set(p, KeyFailed([r EXCEPT !.err = @ \/ ~ok]))
  /\ UNCHANGED <<userVars, now, ticks, rate_limits, audit, rlobs, sessVars,
                 masterKey, encrypted_data, shown>>

\* ROLLBACK on the transaction's client, then the two catch blocks.
KeyRollback(p) ==
  /\ proc[p].pc = "key_rollback"
  /\ \E ok \in Outcomes :
       /\ Query(ok)
       /\ Set(p, SettingsThrow([proc[p] EXCEPT !.err = @ \/ ~ok], "clientIp is not defined"))
  /\ UNCHANGED <<userVars, now, ticks, rate_limits, audit, rlobs, sessVars, vaultVars>>

\* UPDATE api_keys SET is_active = false, revoked_at = NOW() WHERE id = $1 AND
\* user_id = $2 AND is_active = true
RevokedKey(T, id, uid) ==
  [i \in 1 .. Len(T) |->
     IF i = id /\ T[i].user_id = uid THEN [T[i] EXCEPT !.is_active = FALSE] ELSE T[i]]

\* DELETE: the UPDATE; whatever it finds, the next statement is a
\* logSecurityEvent call that names clientIp, and so is the one in the catch.
KeyRevoke(p) ==
  /\ proc[p].pc = "key_revoke"
  /\ \E ok \in Outcomes :
       /\ Query(ok)
       /\ api_keys' = IF ok THEN RevokedKey(api_keys, proc[p].tok, proc[p].uid) ELSE api_keys
       /\ Set(p, SettingsThrow([proc[p] EXCEPT !.err = ~ok], "clientIp is not defined"))
  /\ UNCHANGED <<userVars, now, ticks, rate_limits, audit, rlobs, sessVars,
                 masterKey, encrypted_data, shown>>

\* ------------------------------------------------- handleAccountDeletion
\* security_audit_log.user_id REFERENCES users(id) ON DELETE SET NULL
NulledEvent(e, uid) == IF e.user_id = uid THEN [e EXCEPT !.user_id = "null"] ELSE e

AuditSetNull(B, uid) == BagOfAll(LAMBDA e : NulledEvent(e, uid), B)

\* user_sessions.user_id and encrypted_data.user_id REFERENCES users(id) ON
\* DELETE CASCADE; a deleted row keeps its place in the sequence, so that the
\* ids of the other rows stay, and matches no lookup.
SessionsCascade(T, uid) ==
  [i \in 1 .. Len(T) |->
     IF T[i].user_id = uid
       THEN [T[i] EXCEPT !.user_id = "deleted", !.is_active = FALSE,
                         !.session_token = 0, !.refresh_token = 0]
       ELSE T[i]]

EncryptedCascade(T, uid) ==
  [i \in 1 .. Len(T) |->
     IF T[i].user_id = uid
       THEN [T[i] EXCEPT !.user_id = "deleted", !.data_type = "deleted"]
       ELSE T[i]]

\* DELETE FROM api_keys WHERE user_id = $1
KeysDeleted(T, uid) ==
  [i \in 1 .. Len(T) |->
     IF T[i].user_id = uid
       THEN [T[i] EXCEPT !.user_id = "deleted", !.is_active = FALSE]
       ELSE T[i]]

\* The transaction BEGIN ... DELETE FROM users WHERE id = $1; COMMIT: its
\* effects show at COMMIT; a failing statement means ROLLBACK and a rethrow.
DelTxn(p) ==
  /\ proc[p].pc = "del_txn"
  /\ \E ok \in Outcomes :
       /\ Query(ok)
       /\ LET r == proc[p] IN
          IF ok
            THEN /\ users' = [u \in DOMAIN users \ {r.uid} |-> users[u]]
                 /\ user_sessions' = SessionsCascade(user_sessions, r.uid)
                 /\ encrypted_data' = EncryptedCascade(encrypted_data, r.uid)
                 /\ api_keys' = KeysDeleted(api_keys, r.uid)
                 /\ audit' = AuditSetNull(audit, r.uid)
                 /\ Set(p, Finish(r, "200"))
            ELSE /\ UNCHANGED <<users, user_sessions, encrypted_data, api_keys, audit>>
                 /\ Set(p, SettingsThrow([r EXCEPT !.err = TRUE], "store"))
  /\ UNCHANGED <<minted, streak, now, ticks, rate_limits, rlobs, issued, bulk,
                 masterKey, shown>>

\* ----------------------------------------------------------- specifications
Init ==
  /\ now = 0
  /\ ticks = 0
  /\ rate_limits = <<>>
  /\ audit = EmptyBag
  /\ proc = [p \in Procs |-> Idle]
  /\ faults = 0
  /\ rlobs = [n |-> 0, first |-> NULL, deny |-> NULL]
  /\ user_sessions = <<>>
  /\ issued = <<>>
  /\ bulk = {}
  /\ users = [u \in Users |-> NewUser(Hash("pw0"))]
  /\ minted = 0
  /\ streak = [u \in Users |-> [n |-> 0, at |-> NULL, phase |-> 0]]
  /\ masterKey = "k1"
  /\ encrypted_data = <<>>
  /\ api_keys = <<>>
  /\ shown = <<>>

RateJumps == {1, RATE_LIMITS.login.window - 1, RATE_LIMITS.login.window}

\* Rate limiting, one call at a time.
NextRateSeq ==
  \/ \E p \in Procs : StartCheckRateLimit(p, TRUE)
  \/ \E p \in Procs : RlEnter(p)
  \/ \E p \in Procs : RlSelect(p)
  \/ \E p \in Procs : RlWrite(p)
  \/ \E p \in Procs : RlLog(p)
  \/ (\A p \in Procs : ~InFlight(p)) /\ Tick(RateJumps)

SpecRateSeq == Init /\ [][NextRateSeq]_vars

\* The store answers every query of the step.
Reliable == faults' = faults

\* The clock steps that reach each expiry and the instant just before it.
SessionJumps == {1, ACCESS_TTL - 1, REFRESH_TTL - 1}

\* The session functions, called one at a time on a store that does not fail.
NextSessionSeq ==
  \/ \E p \in Procs : StartCreateSession(p, TRUE)
  \/ \E p \in Procs : StartValidateSession(p, TRUE)
  \/ \E p \in Procs : StartRefreshSession(p, TRUE)
  \/ \E p \in Procs : StartRevokeSession(p, TRUE)
  \/ \E p \in Procs : StartRevokeAll(p, TRUE)
  \/ \E p \in Procs : CsInsert(p) /\ Reliable
  \/ \E p \in Procs : ValSelect(p) /\ Reliable
  \/ \E p \in Procs : ValTouch(p) /\ Reliable
  \/ \E p \in Procs : RefSelect(p) /\ Reliable
  \/ \E p \in Procs : RefUpdate(p) /\ Reliable
  \/ \E p \in Procs : RevUpdate(p) /\ Reliable
  \/ \E p \in Procs : RallUpdate(p) /\ Reliable
  \/ (\A p \in Procs : ~InFlight(p)) /\ Tick(SessionJumps)

SpecSessionSeq == Init /\ [][NextSessionSeq]_vars

\* The session functions, called concurrently on a store that does not fail:
\* the statements of the calls interleave in every order, at one instant.
NextSession ==
  \/ \E p \in Procs : StartCreateSession(p, FALSE)
  \/ \E p \in Procs : StartValidateSession(p, FALSE)
  \/ \E p \in Procs : StartRefreshSession(p, FALSE)
  \/ \E p \in Procs : StartRevokeSession(p, FALSE)
  \/ \E p \in Procs : StartRevokeAll(p, FALSE)
  \/ \E p \in Procs : CsInsert(p) /\ Reliable
  \/ \E p \in Procs : ValSelect(p) /\ Reliable
  \/ \E p \in Procs : ValTouch(p) /\ Reliable
  \/ \E p \in Procs : RefSelect(p) /\ Reliable
  \/ \E p \in Procs : RefUpdate(p) /\ Reliable
  \/ \E p \in Procs : RevUpdate(p) /\ Reliable
  \/ \E p \in Procs : RallUpdate(p) /\ Reliable

SpecSession == Init /\ [][NextSession]_vars

\* The clock steps to the end of the login window and of the lockout.
LoginJumps == {RATE_LIMITS.login.window}

\* Login requests with a password for one registered account, running
\* concurrently at one instant on a store that does not fail: the statements of
\* the requests interleave in every order.
NextLogin ==
  \/ \E p \in Procs : StartLogin(p, FALSE) /\ proc'[p].email \in LoginUsers
                                            /\ proc'[p].pw \in Passwords
  \/ \E p \in Procs : RlEnter(p)
  \/ \E p \in Procs : RlSelect(p) /\ Reliable
  \/ \E p \in Procs : RlWrite(p) /\ Reliable
  \/ \E p \in Procs : RlLog(p) /\ Reliable
  \/ \E p \in Procs : LoginSelect(p) /\ Reliable
  \/ \E p \in Procs : LockSelect(p) /\ Reliable
  \/ \E p \in Procs : LoginLogLocked(p) /\ Reliable
  \/ \E p \in Procs : FailUpdate(p) /\ Reliable
  \/ \E p \in Procs : FailLog(p) /\ Reliable
  \/ \E p \in Procs : SuccUpdate(p) /\ Reliable
  \/ \E p \in Procs : SuccLog(p) /\ Reliable
  \/ \E p \in Procs : CsInsert(p) /\ Reliable

SpecLogin == Init /\ [][NextLogin]_vars

\* Login requests, one at a time; the store may fail.
NextLoginSeq ==
  \/ \E p \in Procs : StartLogin(p, TRUE)
  \/ \E p \in Procs : RlEnter(p)
  \/ \E p \in Procs : RlSelect(p)
  \/ \E p \in Procs : RlWrite(p)
  \/ \E p \in Procs : RlLog(p)
  \/ \E p \in Procs : LoginSelect(p)
  \/ \E p \in Procs : LoginLogInvalid(p)
  \/ \E p \in Procs : LockSelect(p)
  \/ \E p \in Procs : LockClear(p)
  \/ \E p \in Procs : LoginLogLocked(p)
  \/ \E p \in Procs : FailUpdate(p)
  \/ \E p \in Procs : FailLog(p)
  \/ \E p \in Procs : SuccUpdate(p)
  \/ \E p \in Procs : SuccLog(p)
  \/ \E p \in Procs : CsInsert(p)
  \/ \E p \in Procs : HandlerCatch(p)
  \/ \E p \in Procs : MainCatch(p)
  \/ (\A p \in Procs : ~InFlight(p)) /\ Tick(LoginJumps)

SpecLoginSeq == Init /\ [][NextLoginSeq]_vars

\* Password change and password reset, one request at a time and at one
\* instant, on sessions made by createSession; the store may fail.
NextPasswordSeq ==
  \/ \E p \in Procs : StartCreateSession(p, TRUE)
  \/ \E p \in Procs : CsInsert(p)
  \/ \E p \in Procs : StartChangePassword(p, TRUE)
  \/ \E p \in Procs : ValSelect(p)
  \/ \E p \in Procs : ValTouch(p)
  \/ \E p \in Procs : ChgSelect(p)
  \/ \E p \in Procs : ChgLogInvalid(p)
  \/ \E p \in Procs : ChgUpdate(p)
  \/ \E p \in Procs : RallUpdate(p)
  \/ \E p \in Procs : ChgLogOk(p)
  \/ \E p \in Procs : StartForgotPassword(p, TRUE)
  \/ \E p \in Procs : RlEnter(p)
  \/ \E p \in Procs : RlSelect(p)
  \/ \E p \in Procs : RlWrite(p)
  \/ \E p \in Procs : RlLog(p)
  \/ \E p \in Procs : FgtSelect(p)
  \/ \E p \in Procs : FgtUpdate(p)
  \/ \E p \in Procs : FgtLog(p)
  \/ \E p \in Procs : StartResetPassword(p, TRUE)
  \/ \E p \in Procs : RstSelect(p)
  \/ \E p \in Procs : RstLogInvalid(p)
  \/ \E p \in Procs : RstUpdate(p)
  \/ \E p \in Procs : RstLogOk(p)
  \/ \E p \in Procs : HandlerCatch(p)
  \/ \E p \in Procs : MainCatch(p)

SpecPasswordSeq == Init /\ [][NextPasswordSeq]_vars

\* Register requests running concurrently on a store that does not fail: the
\* statements of the requests interleave in every order, at one instant.
NextRegister ==
  \/ \E p \in Procs : StartRegister(p, FALSE)
  \/ \E p \in Procs : RlEnter(p)
  \/ \E p \in Procs : RlSelect(p) /\ Reliable
  \/ \E p \in Procs : RlWrite(p) /\ Reliable
  \/ \E p \in Procs : RlLog(p) /\ Reliable
  \/ \E p \in Procs : RegSelect(p) /\ Reliable
  \/ \E p \in Procs : RegLogDup(p) /\ Reliable
  \/ \E p \in Procs : RegInsert(p) /\ Reliable
  \/ \E p \in Procs : CsInsert(p) /\ Reliable
  \/ \E p \in Procs : RegLog(p) /\ Reliable
  \/ \E p \in Procs : HandlerCatch(p) /\ Reliable
  \/ \E p \in Procs : MainCatch(p) /\ Reliable

SpecRegister == Init /\ [][NextRegister]_vars

\* Logout requests running concurrently with createSession and refreshSession
\* calls, at one instant; the store may fail.
NextLogout ==
  \/ \E p \in Procs : StartCreateSession(p, FALSE)
  \/ \E p \in Procs : StartRefreshSession(p, FALSE)
  \/ \E p \in Procs : StartLogout(p, FALSE)
  \/ \E p \in Procs : CsInsert(p)
  \/ \E p \in Procs : RefSelect(p)
  \/ \E p \in Procs : RefUpdate(p)
  \/ \E p \in Procs : ValSelect(p)
  \/ \E p \in Procs : ValTouch(p)
  \/ \E p \in Procs : RevUpdate(p)
  \/ \E p \in Procs : LogoutLog(p)

SpecLogout == Init /\ [][NextLogout]_vars

\* The EncryptionManager: encrypt and decrypt calls, and restarts of the
\* process under another master key.
NextCrypto ==
  \/ \E p \in Procs : DoEncrypt(p)
  \/ \E p \in Procs : DoDecrypt(p)
  \/ Rekey

SpecCrypto == Init /\ [][NextCrypto]_vars

\* The settings handler: API keys and account deletion, with forgot-password
\* requests in between, one request after the other.
NextSettings ==
  \/ \E p \in Procs : StartSettings(p, TRUE)
  \/ \E p \in Procs : SetUser(p)
  \/ \E p \in Procs : KeyList(p)
  \/ \E p \in Procs : KeyBegin(p)
  \/ \E p \in Procs : KeyStore(p)
  \/ \E p \in Procs : KeyInsert(p)
  \/ \E p \in Procs : KeyRollback(p)
  \/ \E p \in Procs : KeyRevoke(p)
  \/ \E p \in Procs : DelTxn(p)
  \/ \E p \in Procs : StartForgotPassword(p, TRUE)
  \/ \E p \in Procs : RlEnter(p)
  \/ \E p \in Procs : RlSelect(p)
  \/ \E p \in Procs : RlWrite(p)
  \/ \E p \in Procs : RlLog(p)
  \/ \E p \in Procs : FgtSelect(p)
  \/ \E p \in Procs : FgtUpdate(p)
  \/ \E p \in Procs : FgtLog(p)
  \/ \E p \in Procs : HandlerCatch(p)
  \/ \E p \in Procs : MainCatch(p)

SpecSettings == Init /\ [][NextSettings]_vars

\* The settings handler, one request after the other, the user id taken from
\* the token, the body or the query string.
NextSettingsAuth ==
  \/ \E p \in Procs : StartSettingsAnyId(p, TRUE)
  \/ \E p \in Procs : SetUser(p)
  \/ \E p \in Procs : KeyList(p)
  \/ \E p \in Procs : KeyBegin(p)
  \/ \E p \in Procs : KeyStore(p)
  \/ \E p \in Procs : KeyInsert(p)
  \/ \E p \in Procs : KeyRollback(p)
  \/ \E p \in Procs : KeyRevoke(p)
  \/ \E p \in Procs : DelTxn(p)

SpecSettingsAuth == Init /\ [][NextSettingsAuth]_vars

\* checkRateLimit calls running concurrently on a store that does not fail:
\* the statements of the calls interleave in every order, each batch of calls
\* at one instant.
NextRate ==
  \/ \E p \in Procs : StartCheckRateLimit(p, FALSE)
  \/ \E p \in Procs : RlEnter(p)
  \/ \E p \in Procs : RlSelect(p) /\ Reliable
  \/ \E p \in Procs : RlWrite(p) /\ Reliable
  \/ \E p \in Procs : RlLog(p) /\ Reliable
  \/ (\A p \in Procs : ~InFlight(p)) /\ Tick(RateJumps)

SpecRate == Init /\ [][NextRate]_vars

\* ------------------------------------------------------ claims: rate limiting
PairRows(T, id, ep) ==
  {i \in 1 .. Len(T) : T[i].identifier = id /\ T[i].endpoint = ep}

C10_FailOpen ==
  \A p \in Procs :
    (proc[p].pc = "done" /\ proc[p].op = "checkRateLimit" /\ proc[p].err)
      => proc[p].res = "true"

\* A call failed and was allowed although the pair's quota was used up.
C10_Witness ==
  \E p \in Procs :
    /\ proc[p].pc = "done" /\ proc[p].op = "checkRateLimit" /\ proc[p].err
    /\ proc[p].res = "true"
    /\ \E i \in 1 .. Len(rate_limits) :
         /\ rate_limits[i].endpoint = proc[p].ep
         /\ rate_limits[i].requests_count >= RATE_LIMITS[proc[p].ep].requests
         /\ rate_limits[i].window_start > now - RATE_LIMITS[proc[p].ep].window

Superseded(t) ==
  \E u \in TokensOf(issued[t].sid) : u > t /\ issued[u].kind = issued[t].kind

C6_OneEventPerLogin ==
  \A p \in Procs :
    (proc[p].pc = "done" /\ proc[p].op = "login") => proc[p].logged = 1

\* ------------------------------------------------- claims: password change
\* C9: whenever handleChangePassword or handleResetPassword returns success
\* for owner U, every session of U issued before that operation, the one that
\* authenticated the password change included, is inactive (and so fails
\* validateSession and refreshSession).
C9_PasswordRevokesSessions ==
  [][\A p \in Procs :
       (/\ proc[p].op \in {"changePassword", "resetPassword"}
        /\ InFlight(p)
        /\ proc'[p].pc = "done" /\ proc'[p].res = "200") =>
         \A i \in SessionIds :
           user_sessions[i].user_id = proc[p].uid => ~user_sessions'[i].is_active]_vars

\* C9 without store failure: the same for the requests of a run in which the
\* store has answered every query.
C9_WhenStoreAnswers ==
  [][\A p \in Procs :
       (/\ proc[p].op \in {"changePassword", "resetPassword"}
        /\ InFlight(p)
        /\ proc'[p].pc = "done" /\ proc'[p].res = "200"
        /\ faults' = 0) =>
         \A i \in SessionIds :
           user_sessions[i].user_id = proc[p].uid => ~user_sessions'[i].is_active]_vars

\* ------------------------------------------------------- claims: audit log
\* What the caller of logSecurityEvent sees of request r: everything but the
\* count of rows the request has written to the log.
Outcome(r) == [r EXCEPT !.logged = 0]

C12_SameFailureResponse ==
  [][\A p \in Procs :
       (/\ proc[p].op = "login" /\ proc[p].uid \in Users
        /\ ~VerifyPassword(proc[p].pw, proc[p].hash)
        /\ proc[p].pc \in {"fail_update", "fail_log"}
        /\ proc'[p].pc = "done" /\ faults' = 0) =>
         LET unknown == AfterLog([Idle EXCEPT !.pc = "login_log_invalid", !.op = "login",
                                              !.ep = "login", !.email = "nobody"], TRUE)
         IN /\ proc'[p].res = unknown.res
            /\ proc'[p].reply = unknown.reply]_vars

\* C13: when a store operation fails inside an auth operation and the error
\* reaches the boundary, the response is the generic internal error and
\* carries no text derived from the underlying error.
C13_NoErrorDetail ==
  [][\A p \in Procs :
       (/\ proc[p].pc = "main_catch" /\ proc[p].thrown = "store"
        /\ proc'[p].pc = "done") =>
         /\ proc'[p].res = "500"
         /\ proc'[p].reply.details = "none"]_vars

\* ------------------------------------------------------- claims: register
\* Register request p is being rejected because its email belongs to a
\* credential record: the lookup found the email, or the INSERT hit the
\* unique constraint.
DuplicateRejected(r) ==
  /\ r.op = "register"
  /\ r.pc = "reg_log_dup" \/ r.thrown = "duplicate key"

\* C14: whenever register is rejected because its email already belongs to a
\* credential record, also one being created by a concurrent register for the
\* same email, the result is 409, never the internal error, and the rejected
\* call creates neither a user nor a session.
C14_DuplicateIsConflict ==
  [][\A p \in Procs :
       /\ (DuplicateRejected(proc[p]) /\ proc'[p].pc = "done") => proc'[p].res = "409"
       /\ (DuplicateRejected(proc[p]) /\ proc'[p] # proc[p]) =>
            (users' = users /\ user_sessions' = user_sessions)]_vars

KeyOfRow(row) == Decrypt(masterKey, Parse(row.encrypted_data)).value.key

\* The rows of encrypted_data that hold an API key whose creating request has
\* returned.
SettledKeyRows ==
  {i \in 1 .. Len(encrypted_data) :
     /\ encrypted_data[i].data_type = "api_key"
     /\ \A p \in Procs : PlainKey(proc[p].key) # KeyOfRow(encrypted_data[i])}

\* C15: every API key that is persisted had its plaintext returned exactly once,
\* in the response of the request that created it.
C15_PlaintextReturnedOnce ==
  \A i \in SettledKeyRows :
    \E k \in 1 .. Len(shown) : KeyOfRow(encrypted_data[i]) = PlainKey(k) /\ shown[k] = 1

\* ------------------------------------------------------- claims: audit log
\* C19: the audit log is append-only: no step of any operation removes an event
\* that was appended or changes one of its fields.
C19_AuditAppendOnly == [][audit \sqsubseteq audit']_vars

\* ------------------------------------------------ claims: session expiries
\* C17: when refreshSession succeeds at time t, the row it rotated expires at
\* t + 24 h and its refresh token at t + 7 d, whatever the row held before.
C17_RefreshExpiries ==
  [][\A p \in Procs :
       (proc[p].pc = "ref_update" /\ proc'[p].pc = "done" /\ proc'[p].res = "tokens") =>
          /\ user_sessions'[proc[p].sid].expires_at = now + ACCESS_TTL
          /\ user_sessions'[proc[p].sid].refresh_expires_at = now + REFRESH_TTL]_vars

\* A refresh has succeeded on a row that was created at an earlier time.
C17_Witness ==
  \E p \in Procs, i \in SessionIds :
    /\ proc[p].pc = "done" /\ proc[p].op = "refreshSession" /\ proc[p].res = "tokens"
    /\ user_sessions[i].last_used = now
    /\ user_sessions[i].refresh_expires_at = now + REFRESH_TTL
    /\ \E t, u \in TokensOf(i) :
         /\ issued[t].by = "create" /\ issued[t].kind = "refresh"
         /\ issued[t].exp < now + REFRESH_TTL
         /\ issued[u].by = "refresh" /\ user_sessions[i].refresh_token = u

\* C18: in every session row the refresh expiry is strictly later than the
\* access expiry, whatever calls of createSession, refreshSession,
\* validateSession, revokeSession and revokeAllUserSessions have run or are running.
C18_RefreshOutlivesAccess ==
  \A i \in SessionIds : user_sessions[i].refresh_expires_at > user_sessions[i].expires_at

\* Two rows exist, one of them rotated by a refresh and one revoked.
C18_Witness ==
  /\ \E i \in SessionIds : \E t \in TokensOf(i) : issued[t].by = "refresh"
  /\ \E i \in SessionIds : ~user_sessions[i].is_active
  /\ Len(user_sessions) >= 2

\* --------------------------------------------------- claims: blocked pairs
\* A checkRateLimit call is at its lookup and a record of its pair is blocked
\* beyond the time of the call.
AtLookupBlocked(p) ==
  /\ proc[p].op = "checkRateLimit" /\ proc[p].pc = "rl_select"
  /\ \E i \in PairRows(rate_limits, proc[p].ip, proc[p].ep) :
       rate_limits[i].blocked_until # NULL /\ rate_limits[i].blocked_until > proc[p].t0

\* C20, as stated: while blocked_until of a pair's record is in the future,
\* every checkRateLimit call for the pair returns false and changes no field
\* of the record, also when the window of the block has elapsed.
C20_AsStated ==
  [][\A p \in Procs :
       AtLookupBlocked(p) =>
         /\ proc'[p].pc = "done" /\ proc'[p].res = "false"
         /\ rate_limits' = rate_limits]_vars

\* C20: in a sequential execution, while blocked_until of a pair's record is
\* in the future, every checkRateLimit call for the pair whose lookup succeeds
\* returns false, and a call whose lookup fails returns true; either way no
\* field of the record changes, also when the window of the block has elapsed.
C20_BlockDominates ==
  [][\A p \in Procs :
       AtLookupBlocked(p) =>
         /\ proc'[p].pc = "done"
         /\ proc'[p].res = IF faults' = faults THEN "false" ELSE "true"
         /\ rate_limits' = rate_limits]_vars

\* A call was denied by a block whose window had elapsed at the time of the call.
C20_Witness ==
  \E p \in Procs :
    /\ proc[p].pc = "done" /\ proc[p].op = "checkRateLimit" /\ proc[p].res = "false"
    /\ ~proc[p].err
    /\ \E i \in PairRows(rate_limits, "ip1", "login") :
         /\ rate_limits[i].blocked_until > now
         /\ rate_limits[i].blocked_until < now + RATE_LIMITS.login.window
         /\ rate_limits[i].window_start <= now - RATE_LIMITS.login.window

\* ------------------------------------------------- claims: account lockout
\* checkAccountLockout has returned false to handleLogin, which goes on to
\* verify the password.
LockoutSaysFalse(r) == r.pc \in {"succ_update", "fail_update"}

C22_DecidesOnCountRead ==
  [][\A p \in Procs :
       LET r == proc[p]
           limit == RATE_LIMITS[r.ep]
       IN (r.op = "checkRateLimit" /\ r.pc = "rl_write" /\ proc'[p] # r /\ r.found
             /\ r.rl.window_start > r.t0 - limit.window) =>
            /\ (proc'[p].pc = "done" /\ proc'[p].res = "true")
                  <=> r.rl.requests_count < limit.requests
            /\ r.rl.requests_count < limit.requests =>
                  \A i \in PairRows(rate_limits, r.ip, r.ep) :
                    rate_limits'[i].requests_count = rate_limits[i].requests_count + 1]_vars

\* Two concurrent calls were both let through and left the count of the open
\* window above R: more than R calls of the window have returned true.
C22_Witness ==
  /\ \A p \in Procs :
       proc[p].pc = "done" /\ proc[p].op = "checkRateLimit" /\ proc[p].res = "true"
  /\ \E i \in PairRows(rate_limits, "ip1", "login") :
       /\ rate_limits[i].requests_count > RATE_LIMITS.login.requests
       /\ rate_limits[i].window_start = now

\* C23: at all times there is at most one rate_limits record for each
\* (identifier, endpoint) pair, whatever checkRateLimit calls have run or are
\* running, concurrent first requests for one pair included.
C23_OneRecordPerPair ==
  \A i, j \in 1 .. Len(rate_limits) :
    (rate_limits[i].identifier = rate_limits[j].identifier
       /\ rate_limits[i].endpoint = rate_limits[j].endpoint) => i = j

\* ------------------------------------------------ claims: concurrent sessions
\* C24: a refresh token is redeemable at most once, whatever the interleaving of
\* the refreshSession calls that present it. Tokens never repeat and the first
\* redemption replaces the token in its record, so this says: a call returns
\* new tokens only if the token it presented is still the refresh token of the
\* record at the call's write.
C24_RedeemedOnce ==
  [][\A p \in Procs :
       (proc[p].op = "refreshSession" /\ proc[p].pc = "ref_update"
          /\ proc'[p].pc = "done" /\ proc'[p].res = "tokens") =>
         user_sessions[proc[p].sid].refresh_token = proc[p].tok]_vars

\* The account of login request p is locked now.
LockedNow(p) ==
  /\ proc[p].uid \in DOMAIN users
  /\ users[proc[p].uid].locked_until # NULL
  /\ users[proc[p].uid].locked_until > now

\* C25: while an account's locked_until is set and in the future, no login
\* request for the account returns a session, whatever the interleaving of the
\* lockout checks, password verifications and recordings of concurrent logins.
\* A request returns a session once its password is verified and its success
\* recorded, and recording the success clears the lockout: the account is to be
\* unlocked when a request gets there.
C25_NoSessionWhileLocked ==
  [][\A p \in Procs :
       (proc[p].op = "login" /\ proc[p].pc = "succ_update" /\ proc'[p] # proc[p])
          => ~LockedNow(p)]_vars

\* The clock step that ends a lockout.
LockoutJumps == {ACCOUNT_LOCKOUT.duration}

\* Logins for one registered account running concurrently with the password
\* reset of the account, on a store that does not fail; the reset token is
\* requested while nothing else runs, and the clock moves between requests
\* while an account is locked, by the duration of the lockout.
NextLockout ==
  \/ \E p \in Procs : StartLogin(p, FALSE)
                        /\ proc'[p].email \in LoginUsers /\ proc'[p].pw \in Passwords
  \/ \E p \in Procs : StartForgotPassword(p, TRUE) /\ proc'[p].email \in LoginUsers
  \/ \E p \in Procs : StartResetPassword(p, FALSE)
                        /\ proc'[p].body = "json" /\ proc'[p].npw = "pw1"
  \/ \E p \in Procs : RlEnter(p)
  \/ \E p \in Procs : RlSelect(p) /\ Reliable
  \/ \E p \in Procs : RlWrite(p) /\ Reliable
  \/ \E p \in Procs : RlLog(p) /\ Reliable
  \/ \E p \in Procs : LoginSelect(p) /\ Reliable
  \/ \E p \in Procs : LockSelect(p) /\ Reliable
  \/ \E p \in Procs : LockClear(p) /\ Reliable
  \/ \E p \in Procs : LoginLogLocked(p) /\ Reliable
  \/ \E p \in Procs : FailUpdate(p) /\ Reliable
  \/ \E p \in Procs : FailLog(p) /\ Reliable
  \/ \E p \in Procs : SuccUpdate(p) /\ Reliable
  \/ \E p \in Procs : SuccLog(p) /\ Reliable
  \/ \E p \in Procs : CsInsert(p) /\ Reliable
  \/ \E p \in Procs : FgtSelect(p) /\ Reliable
  \/ \E p \in Procs : FgtUpdate(p) /\ Reliable
  \/ \E p \in Procs : FgtLog(p) /\ Reliable
  \/ \E p \in Procs : RstSelect(p) /\ Reliable
  \/ \E p \in Procs : RstLogInvalid(p) /\ Reliable
  \/ \E p \in Procs : RstUpdate(p) /\ Reliable
  \/ \E p \in Procs : RallUpdate(p) /\ Reliable
  \/ \E p \in Procs : RstLogOk(p) /\ Reliable
  \/ /\ \A p \in Procs : ~InFlight(p)
     /\ \E u \in DOMAIN users : users[u].locked_until # NULL
     /\ Tick(LockoutJumps)

SpecLockout == Init /\ [][NextLockout]_vars

\* The lockout columns of every account agree.
LockedIffThreshold ==
  \A u \in DOMAIN users :
    users[u].locked_until # NULL
      <=> users[u].failed_login_attempts >= ACCOUNT_LOCKOUT.threshold

\* C27: locked_until is non-NULL exactly when failed_login_attempts is at
\* least the threshold, and every handleFailedLogin whose UPDATE ran adds one
\* to the count the account has at that moment, whatever handleSuccessfulLogin,
\* checkAccountLockout and password reset do in between.
C27_LockoutConsistent ==
  /\ []LockedIffThreshold
  /\ [][\A p \in Procs :
          (proc[p].pc = "fail_update" /\ proc'[p].pc = "fail_log") =>
            users'[proc[p].uid].failed_login_attempts
              = users[proc[p].uid].failed_login_attempts + 1]_vars

\* A failure is counted on an account that another request has just reset
\* while this one was between its lockout check and its UPDATE.
C27_Witness ==
  \E p \in Procs :
    /\ proc[p].op = "login" /\ proc[p].pc = "fail_log"
    /\ proc[p].attempts > ACCOUNT_LOCKOUT.threshold
    /\ users[proc[p].uid].locked_until # NULL


\* C26: when handleLogout returns success for session token T, the session
\* record that T identified as the request began is inactive, whatever
\* refreshSession call on the session ran concurrently, and also when the
\* store write of the revoke failed.
C26_LogoutRevokes ==
  [][\A p \in Procs :
       (proc[p].op = "logout" /\ InFlight(p) /\ proc[p].target # 0
          /\ proc'[p].pc = "done" /\ proc'[p].res = "200") =>
         ~user_sessions'[proc[p].target].is_active]_vars

\* A settings request past getUserFromRequest: it acts as the user uid.
ActsAsUser(r) ==
  r.op \in SettingsOps /\ r.pc \notin {"idle", "done", "set_user"}

\* C28: a settings operation is carried out on behalf of user U only when the
\* request carried a valid signed bearer token whose subject is U.
C28_ActsOnlyForTokenSubject ==
  \A p \in Procs : ActsAsUser(proc[p]) => proc[p].bearer = proc[p].uid

\* Password-reset requests running concurrently on a store that does not
\* fail, at one instant; the reset token is requested while nothing else runs.
NextReset ==
  \/ \E p \in Procs : StartForgotPassword(p, TRUE) /\ proc'[p].email \in LoginUsers
  \/ \E p \in Procs : StartResetPassword(p, FALSE) /\ proc'[p].body = "json"
  \/ \E p \in Procs : RlEnter(p)
  \/ \E p \in Procs : RlSelect(p) /\ Reliable
  \/ \E p \in Procs : RlWrite(p) /\ Reliable
  \/ \E p \in Procs : FgtSelect(p) /\ Reliable
  \/ \E p \in Procs : FgtUpdate(p) /\ Reliable
  \/ \E p \in Procs : FgtLog(p) /\ Reliable
  \/ \E p \in Procs : RstSelect(p) /\ Reliable
  \/ \E p \in Procs : RstLogInvalid(p) /\ Reliable
  \/ \E p \in Procs : RstUpdate(p) /\ Reliable
  \/ \E p \in Procs : RallUpdate(p) /\ Reliable
  \/ \E p \in Procs : RstLogOk(p) /\ Reliable

SpecReset == Init /\ [][NextReset]_vars

\* C29: a password-reset token is used once: a handleResetPassword that sets
\* the password does so while the token it was given is still the account's
\* reset token, in any interleaving of handleResetPassword calls.
C29_ResetTokenUsedOnce ==
  [][\A p \in Procs :
       (proc[p].op = "resetPassword" /\ proc[p].pc = "rst_update"
          /\ proc'[p].pc = "rall_update") =>
         users[proc[p].uid].password_reset_token = proc[p].tok]_vars

\* C30: issuing an API key is all-or-nothing: once the creating request has
\* returned, the encrypted_data record of a key exists exactly when the
\* api_keys row that points to it exists.
C30_KeyAllOrNothing ==
  /\ \A i \in SettledKeyRows :
       \E k \in 1 .. Len(api_keys) : api_keys[k].encrypted_key_id = i
  /\ \A k \in 1 .. Len(api_keys) :
       /\ api_keys[k].encrypted_key_id \in 1 .. Len(encrypted_data)
       /\ encrypted_data[api_keys[k].encrypted_key_id].data_type = "api_key"

====
